---- MODULE Spec2Model ----
(***************************************************************************)
(* Predictive consumption / expiration engine of myexpirekits-backend.     *)
(*                                                                         *)
(*   Spec     : MLService (services/mlService.ts) over DataTransformer,    *)
(*              KNNExpirationPredictor and ConsumptionPredictor            *)
(*   SpecTrend: MLService.predictConsumptionTrend over event histories     *)
(*   SpecInv  : MLService.analyzeInventory and predictItemOutcome over     *)
(*              stores with expired and consumed items                     *)
(*   SpecKNN  : KNNExpirationPredictor (mlModels/knnExpirationPredictor.ts)*)
(*   SpecRF   : RandomForestConsumptionPredictor.train                     *)
(*              (services/recipeGenerationService.ts)                      *)
(*   SpecFeat : RandomForestConsumptionPredictor.extractFeatures           *)
(*   SpecPattern  : the processConsumption handler over the pattern store  *)
(*   SpecClean, SpecPrepare, SpecValidate, SpecEncoder: cleanFeatureArray, *)
(*              prepareTrainingData, validateTrainingData and the category *)
(*              encoder of RandomForestConsumptionPredictor                *)
(*   SpecLifecycle: DataTransformer.preprocessConsumptionData              *)
(*   SpecRisk : the risk score and level of MLService.analyzeInventory     *)
(*   SpecCompare  : the report of compareMLModels                          *)
(*                                                                         *)
(* Optional numbers (number | null) are modelled as sequences: <<>> is     *)
(* null/undefined and <<v>> is the number v.  Fractions are pairs          *)
(* <<numerator, denominator>> and are compared by cross-multiplication.    *)
(***************************************************************************)
EXTENDS Integers, Sequences, FiniteSets, TLC

VARIABLES
    k,              \* KNNExpirationPredictor.k
    trainingData,   \* KNNExpirationPredictor.trainingData
    knnItem,        \* predict: the query item of the last call
    knnNeighbors,   \* predict: its local `neighbors` (the data points)
    knnResult,      \* predict: the PredictionResult it returned
    rfPool,             \* rows the `pool` argument returns for consumption_patterns
    regressionModel,    \* RandomForestConsumptionPredictor.regressionModel
    classificationModel, \* RandomForestConsumptionPredictor.classificationModel
    categoryEncoder,    \* RandomForestConsumptionPredictor.categoryEncoder
    rfRuns,             \* number of train() calls made so far
    rfLast,             \* what the last train() call saw and how it ended
    featIn,             \* extractFeatures: its arguments
    featOut,            \* extractFeatures + featuresToArray: the outcome
    dbPatterns,         \* store: rows of consumption_patterns
    dbEvents,           \* store: rows of item_events, newest first
    dbItems,            \* store: rows of items, ordered by expiryDate
    userPatterns,       \* ConsumptionPredictor.userPatterns
    isModelsTrained,    \* MLService.isModelsTrained
    lastTrainingTime,   \* MLService.lastTrainingTime
    req,                \* the requests in flight: operation, await reached, locals
    trainRuns,          \* history: trainModels runs that completed successfully
    firstModel,         \* history: the model state the first such run left
    processedCount,     \* history: updatePattern statements executed, per store key
    callArgs,           \* a function of the engine applied on its own: the arguments
    callResult          \* ... and what the call returned, <<>> before it

knnVars == <<k, trainingData, knnItem, knnNeighbors, knnResult>>

rfVars == <<rfPool, regressionModel, classificationModel, categoryEncoder, rfRuns, rfLast>>

featVars == <<featIn, featOut>>

storeVars == <<dbPatterns, dbEvents, dbItems>>

svcVars == <<storeVars, userPatterns, isModelsTrained, lastTrainingTime, req, trainRuns,
             firstModel, processedCount>>

callVars == <<callArgs, callResult>>

vars == <<knnVars, rfVars, featVars, svcVars, callVars>>

----------------------------------------------------------------------------
(* Generic helpers                                                         *)

None == <<>>

Some(v) == <<v>>

\* JavaScript `x || d` on a number|null: null, undefined and 0 are falsy.
OrElse(x, d) == IF x = None THEN d ELSE IF x[1] = 0 THEN d ELSE x[1]

Min(a, b) == IF a <= b THEN a ELSE b

Max(a, b) == IF a >= b THEN a ELSE b

\* Array.prototype.slice(0, n)
Take(s, n) == SubSeq(s, 1, Min(n, Len(s)))

RECURSIVE SumSeq(_)
SumSeq(s) == IF s = <<>> THEN 0 ELSE s[1] + SumSeq(Tail(s))

\* All sequences over S of length at most n.
SeqsUpTo(S, n) == UNION {[1..m -> S] : m \in 0..n}

\* Fractions <<num, den>> with den > 0.
RatEq(a, b) == a[1] * b[2] = b[1] * a[2]

RatLeq(a, b) == a[1] * b[2] <= b[1] * a[2]

\* Math.round of the fraction total/n (n > 0, total >= 0): halves round up.
MathRoundDown(total, n) == total \div n

MathRound(total, n) == (2 * total + n) \div (2 * n)

----------------------------------------------------------------------------
(* KNNExpirationPredictor                                                  *)

Outcomes == {"consume", "expire", "discard"}

\* The distance of knnExpirationPredictor.ts:34-45 is
\*   sqrt(mismatch*5 + (dc/10)^2 + (da/3)^2);
\* the sort only compares distances, sqrt is monotone, so the model orders by
\* 900 times the sum under the root, which is an integer.
KNNDistance2(point1, point2) ==
    LET dc == point1.consumption_count - point2.consumption_count
        da == OrElse(point1.average_consumption_days, 30)
              - OrElse(point2.average_consumption_days, 30)
    IN  (IF point1.category = point2.category THEN 0 ELSE 4500)
        + 9 * dc * dc + 100 * da * da

\* trainingData.filter(dataPoint => dataPoint.category === item.category)
FilterCategory(data, item) ==
    SelectSeq(data, LAMBDA dp : dp.category = item.category)

\* Array.prototype.sort((a, b) => a.distance - b.distance): stable, ascending.
RECURSIVE InsertByDistance(_, _, _)
InsertByDistance(sorted, dp, item) ==
    IF sorted = <<>> THEN <<dp>>
    ELSE IF KNNDistance2(sorted[1], item) <= KNNDistance2(dp, item)
         THEN <<sorted[1]>> \o InsertByDistance(Tail(sorted), dp, item)
         ELSE <<dp>> \o sorted

RECURSIVE SortByDistance(_, _)
SortByDistance(data, item) ==
    IF data = <<>> THEN <<>>
    ELSE InsertByDistance(
             SortByDistance(SubSeq(data, 1, Len(data) - 1), item),
             data[Len(data)], item)

NearestOf(data, item, kk) == Take(SortByDistance(data, item), kk)

\* Mutant: the fallback to the whole training set is taken whenever fewer
\* than k same-category neighbours exist.
KNNNeighborsPadded(data, item, kk) ==
    LET same == NearestOf(FilterCategory(data, item), item, kk)
    IN  IF Len(same) < kk THEN NearestOf(data, item, kk) ELSE same

\* knnExpirationPredictor.ts:52-71
KNNNeighbors(data, item, kk) ==
    LET same == NearestOf(FilterCategory(data, item), item, kk)
    IN  IF Len(same) = 0 THEN NearestOf(data, item, kk) ELSE same

\* outcomes[outcome]: number of neighbours carrying the label
VoteCount(neighbors, outcome) ==
    Cardinality({i \in 1..Len(neighbors) : neighbors[i].outcome = outcome})

MaxCount(neighbors) ==
    LET counts == {VoteCount(neighbors, o) : o \in Outcomes}
    IN  CHOOSE c \in counts : \A d \in counts : d <= c

\* Object.entries(outcomes) enumerates labels in order of first appearance and
\* the strict `count > maxCount` keeps the first label that reaches the maximum.
Winner(neighbors) ==
    IF neighbors = <<>> THEN "consume"
    ELSE LET first == CHOOSE i \in 1..Len(neighbors) :
                 /\ VoteCount(neighbors, neighbors[i].outcome) = MaxCount(neighbors)
                 /\ \A j \in 1..(i - 1) :
                        VoteCount(neighbors, neighbors[j].outcome) < MaxCount(neighbors)
         IN  neighbors[first].outcome

\* Mutant: confidence normalised by the number of neighbours actually found.
KNNConfidencePerNeighbor(neighbors, kk) == <<MaxCount(neighbors), Len(neighbors)>>

\* const confidence = maxCount / this.k
KNNConfidence(neighbors, kk) == <<MaxCount(neighbors), kk>>

\* Mutant: the default answer reports no lifespan.
KNNDefaultZeroDays == [prediction |-> "consume", confidence |-> <<0, 1>>, days |-> 0]

\* knnExpirationPredictor.ts:48-50
KNNDefault == [prediction |-> "consume", confidence |-> <<0, 1>>, days |-> 30]

KNNAverageDays(neighbors) ==
    MathRound(SumSeq([i \in 1..Len(neighbors) |-> neighbors[i].actual_lifespan_days]),
              Len(neighbors))

\* KNNExpirationPredictor.predict
KNNPredict(data, kk, item) ==
    IF Len(data) = 0 THEN KNNDefault
    ELSE LET neighbors == KNNNeighbors(data, item, kk)
         IN  [prediction |-> Winner(neighbors),
              confidence |-> KNNConfidence(neighbors, kk),
              days       |-> KNNAverageDays(neighbors)]

----------------------------------------------------------------------------
(* JavaScript numbers that may be missing or non-finite                    *)
(* (RandomForestConsumptionPredictor handles null, NaN and Infinity).      *)

Num(v) == [t |-> "num", v |-> v]

NaNV == [t |-> "NaN", v |-> 0]

InfV == [t |-> "Infinity", v |-> 0]

\* null or undefined: the code treats the two alike wherever it reads them
NullV == [t |-> "null", v |-> 0]

\* typeof f === 'number' && isFinite(f)
IsFiniteNumber(x) == x.t = "num"

\* truthiness of a number | null | undefined
Truthy(x) == x.t = "Infinity" \/ (x.t = "num" /\ x.v # 0)

\* x || d
JsOr(x, d) == IF Truthy(x) THEN x ELSE d

\* x > n for a finite n: false for null, undefined and NaN, true for Infinity
JsGreater(x, n) == x.t = "Infinity" \/ (x.t = "num" /\ x.v > n)

----------------------------------------------------------------------------
(* RandomForestConsumptionPredictor (recipeGenerationService.ts:685-1096)  *)

\* The category encoder is a Map; it is modelled as the sequence of its keys in
\* insertion order, the value of a key being its position minus one.
EncoderHas(enc, category) == \E i \in 1..Len(enc) : enc[i] = category

\* Mutant: a new category takes the first place and moves the others up.
EncoderAfterFront(enc, category) ==
    IF EncoderHas(enc, category) THEN enc ELSE <<category>> \o enc

\* encodeCategoryAsNumber: the encoder after the call ...
EncoderAfter(enc, category) ==
    IF EncoderHas(enc, category) THEN enc ELSE Append(enc, category)

\* ... and the number it returns
EncodeCategoryAsNumber(enc, category) ==
    LET e == EncoderAfter(enc, category)
    IN  (CHOOSE i \in 1..Len(e) : e[i] = category) - 1

\* featuresToArray: the fixed field order of the 11-vector
FeaturesToArray(f) ==
    <<f.average_consumption_days, f.consumption_count, f.days_since_last_consumed,
      f.category_encoded, f.day_of_week, f.month, f.is_weekend,
      f.days_until_expiry, f.item_age_days, f.user_total_items,
      f.user_avg_consumption_frequency>>

\* getDefaultFeatureValue: defaults[index] || 0, index counted from 0
DefaultsTable == <<30, 1, 30, 0, 1, 6, 0, 30, 0, 1, 30>>

GetDefaultFeatureValue(index) ==
    IF index + 1 \in 1..Len(DefaultsTable) THEN Num(DefaultsTable[index + 1]) ELSE Num(0)

\* cleanFeatureArray: null, undefined, NaN and +-Infinity become the default
CleanFeatureArray(features) ==
    [i \in 1..Len(features) |->
        IF features[i].t = "num" THEN features[i] ELSE GetDefaultFeatureValue(i - 1)]

\* validateTrainingData, the targets: NaN and Infinity become 30, then the
\* value is clamped to [1, 365] (Math.min(null, 365) is 0, hence 1)
CleanDaysTarget(t) ==
    LET v == IF t.t \in {"NaN", "Infinity"} THEN 30 ELSE IF t.t = "null" THEN 0 ELSE t.v
    IN  Max(1, Min(v, 365))

\* Mutant: the classification is re-derived whatever the input carried.
CleanClassificationTargetRederived(c, days) == IF days <= 7 THEN 1 ELSE 0

\* if (c !== 0 && c !== 1) c = cleanedDaysTarget <= 7 ? 1 : 0
CleanClassificationTarget(c, days) ==
    IF c.t = "num" /\ c.v \in {0, 1} THEN c.v ELSE IF days <= 7 THEN 1 ELSE 0

CleanDataPoint(dp) ==
    LET days == CleanDaysTarget(dp.days_target)
    IN  [features              |-> CleanFeatureArray(dp.features),
         days_target           |-> days,
         classification_target |-> CleanClassificationTarget(dp.classification_target, days)]

AllFinite(features) == \A i \in 1..Len(features) : IsFiniteNumber(features[i])

\* validateTrainingData: clean every example, then drop those that still hold
\* a non-finite feature
ValidateTrainingData(raw) ==
    SelectSeq([i \in 1..Len(raw) |-> CleanDataPoint(raw[i])],
              LAMBDA dp : AllFinite(dp.features))

\* prepareTrainingData, the four days-since-last scenarios of a pattern whose
\* average cycle is a (lines 883-892)
Scenarios(a) ==
    <<[days_since_last |-> 0,            month |-> 1, day_of_week |-> 1, is_weekend |-> 0],
      [days_since_last |-> a \div 2,     month |-> 3, day_of_week |-> 3, is_weekend |-> 0],
      [days_since_last |-> a,            month |-> 6, day_of_week |-> 5, is_weekend |-> 1],
      [days_since_last |-> (3 * a) \div 2, month |-> 9, day_of_week |-> 0, is_weekend |-> 1]>>

ExpiryScenarios == <<30, 90, 180, 365>>

\* Mutant: the variance is 9 days whatever the consumption count.
NoiseOfWide(pattern, r) == 2 * r - 9

\* Math.random() is modelled as r/10 with r in 0..9:
\*   Math.floor(Math.random() * 3 - 1)  and  Math.floor(Math.random() * 10 - 5)
NoiseOf(pattern, r) ==
    IF JsGreater(pattern.consumption_count, 5) THEN ((3 * r) \div 10) - 1 ELSE r - 5

\* One synthetic example (lines 899-939).
SyntheticExample(pattern, userStats, scenario, daysUntilExpiry, code, r) ==
    LET a == JsOr(pattern.average_consumption_days, Num(30)).v
        predictedDays ==
            Max(1, Min(Max(1, a - scenario.days_since_last) + NoiseOf(pattern, r), 180))
    IN  [features |-> FeaturesToArray(
            [average_consumption_days       |-> Num(a),
             consumption_count              |-> pattern.consumption_count,
             days_since_last_consumed       |-> Num(scenario.days_since_last),
             category_encoded               |-> Num(code),
             day_of_week                    |-> Num(scenario.day_of_week),
             month                          |-> Num(scenario.month),
             is_weekend                     |-> Num(scenario.is_weekend),
             days_until_expiry              |-> Num(daysUntilExpiry),
             item_age_days                  |-> Num(Max(0, scenario.days_since_last)),
             user_total_items               |-> userStats.total_items,
             user_avg_consumption_frequency |-> userStats.avg_frequency]),
         days_target |-> Num(predictedDays),
         classification_target |-> Num(IF predictedDays <= 7 THEN 1 ELSE 0)]

\* The 16 examples of one pattern: scenarios outer, expiry horizons inner.
PatternExamples(pattern, userStats, code, r) ==
    LET a == JsOr(pattern.average_consumption_days, Num(30)).v
    IN  [n \in 1..16 |->
            SyntheticExample(pattern, userStats, Scenarios(a)[((n - 1) \div 4) + 1],
                             ExpiryScenarios[((n - 1) % 4) + 1], code, r)]

\* SELECT COUNT(*) as total_patterns, AVG(average_consumption_days) as avg_freq
\* FROM consumption_patterns WHERE user_id = ?   and lines 877-880.
\* AVG ignores NULLs and is NULL without a value; the rows of the model carry
\* one cycle length, so the integer quotient is the exact mean.
UserStatsOf(table, userId) ==
    LET rows  == SelectSeq(table, LAMBDA p : p.user_id = userId)
        known == SelectSeq(rows, LAMBDA p : p.average_consumption_days.t = "num")
        avg   == IF Len(known) = 0 THEN NullV
                 ELSE Num(SumSeq([i \in 1..Len(known) |->
                                     known[i].average_consumption_days.v]) \div Len(known))
    IN  [total_items   |-> JsOr(Num(Len(rows)), Num(1)),
         avg_frequency |-> JsOr(avg, Num(30))]

\* prepareTrainingData over the rows the pool returns; `failed` holds the
\* positions whose user-stats query threw (the pattern is skipped, line 945).
\* Returns the examples and the encoder afterwards.
RECURSIVE PrepareFrom(_, _, _, _, _, _)
PrepareFrom(table, i, failed, enc, r, acc) ==
    IF i > Len(table) THEN [data |-> acc, encoder |-> enc]
    ELSE IF i \in failed THEN PrepareFrom(table, i + 1, failed, enc, r, acc)
    ELSE LET pattern == table[i]
             enc2    == EncoderAfter(enc, pattern.category)
             code    == EncodeCategoryAsNumber(enc, pattern.category)
         IN  PrepareFrom(table, i + 1, failed, enc2, r,
                 acc \o PatternExamples(pattern, UserStatsOf(table, pattern.user_id), code, r))

PrepareTrainingData(table, failed, enc, r) == PrepareFrom(table, 1, failed, enc, r, <<>>)

\* Instants are counted in half days since the epoch; a Date carries its
\* calendar month.  Math.floor((a - b) / (1000 * 60 * 60 * 24)):
DaysBetween(a, b) == (a - b) \div 2

\* Date.prototype.getDay (0 = Sunday); 1 January 1970 was a Thursday
GetDay(date) == (4 + (date.time \div 2)) % 7

\* Date.prototype.getMonth() + 1
MonthOf(date) == date.month

\* item?.field: undefined when the item is null
ItemField(item, present, field) == IF present THEN item[field] ELSE NullV

\* extractFeatures (lines 814-845).  hasPattern = FALSE stands for a null
\* pattern, on which `pattern.last_consumed` throws a TypeError.
ExtractFeatures(hasPattern, pattern, currentDate, hasItem, item, userStats, enc) ==
    IF ~hasPattern THEN [threw |-> TRUE, vector |-> <<>>, encoder |-> enc]
    ELSE
    LET expiryDate == ItemField(item, hasItem, "expiryDate")
        created_at == ItemField(item, hasItem, "created_at")
        daysSinceLastConsumed ==
            IF pattern.last_consumed.t # "null"
            THEN DaysBetween(currentDate.time, pattern.last_consumed.v) ELSE 999
        daysUntilExpiry ==
            IF expiryDate.t # "null"
            THEN DaysBetween(expiryDate.v, currentDate.time) ELSE 365
        itemAgeDays ==
            IF created_at.t # "null"
            THEN DaysBetween(currentDate.time, created_at.v) ELSE 0
    IN  [threw |-> FALSE,
         vector |-> FeaturesToArray(
            [average_consumption_days       |-> JsOr(pattern.average_consumption_days, Num(30)),
             consumption_count              |-> JsOr(pattern.consumption_count, Num(0)),
             days_since_last_consumed       |-> Num(daysSinceLastConsumed),
             category_encoded               |-> Num(EncodeCategoryAsNumber(enc, pattern.category)),
             day_of_week                    |-> Num(GetDay(currentDate)),
             month                          |-> Num(MonthOf(currentDate)),
             is_weekend                     |-> Num(IF GetDay(currentDate) \in {0, 6} THEN 1 ELSE 0),
             days_until_expiry              |-> Num(Max(0, daysUntilExpiry)),
             item_age_days                  |-> Num(itemAgeDays),
             user_total_items               |-> JsOr(userStats.total_items, Num(0)),
             user_avg_consumption_frequency |-> JsOr(userStats.avg_frequency, Num(30))]),
         encoder |-> EncoderAfter(enc, pattern.category)]

\* train, lines 970 and 977
MinExamples == 10

\* Mutant: the comparison is written the wrong way round.
InsufficientDataInverted(n) == n > MinExamples

\* rawTrainingData.length < 10, trainingData.length < 10
InsufficientData(n) == n < MinExamples

NoModel == [fitted |-> FALSE, run |-> 0]

\* new RandomForestRegression/Classifier(...) of train call `run`;
\* fitted tells whether its train(features, targets) returned.
NewModel(run, fitted) == [fitted |-> fitted, run |-> run]

\* What a train call saw and did: how it ended, the sizes of the raw set, of
\* its all-finite part and of the cleaned set, whether a fitted pair was in
\* place before it, and whether both model fields are what they were before.
NoTrainCall ==
    [outcome |-> "none", rawCount |-> 0, finiteCount |-> 0, cleanCount |-> 0,
     hadModels |-> FALSE, kept |-> TRUE]

\* train(pool) after prepareTrainingData returned `prep` and
\* validateTrainingData returned `clean`; fault names the step that throws:
\* "query" is the pattern query of prepareTrainingData, "regression" and
\* "classification" are the two fits.  `run` numbers the call, reg and cls are
\* the models before it.
TrainResult(prep, clean, enc, fault, run, reg, cls) ==
    LET seen == [outcome |-> "none", rawCount |-> Len(prep.data),
                 finiteCount |-> Len(SelectSeq(prep.data, LAMBDA dp : AllFinite(dp.features))),
                 cleanCount |-> Len(clean),
                 hadModels |-> reg.fitted /\ cls.fitted, kept |-> TRUE]
    IN  IF fault = "query"
        THEN [regression |-> reg, classification |-> cls, encoder |-> enc,
              last |-> [NoTrainCall EXCEPT !.outcome = "query-failed",
                                           !.hadModels = reg.fitted /\ cls.fitted]]
        ELSE IF InsufficientData(Len(prep.data)) \/ InsufficientData(Len(clean))
        THEN [regression |-> reg, classification |-> cls, encoder |-> prep.encoder,
              last |-> [seen EXCEPT !.outcome = "insufficient-data"]]
        ELSE IF fault = "regression"
        THEN [regression |-> NewModel(run, FALSE), classification |-> cls,
              encoder |-> prep.encoder,
              last |-> [seen EXCEPT !.outcome = "fit-failed", !.kept = FALSE]]
        ELSE IF fault = "classification"
        THEN [regression |-> NewModel(run, TRUE), classification |-> NewModel(run, FALSE),
              encoder |-> prep.encoder,
              last |-> [seen EXCEPT !.outcome = "fit-failed", !.kept = FALSE]]
        ELSE [regression |-> NewModel(run, TRUE), classification |-> NewModel(run, TRUE),
              encoder |-> prep.encoder,
              last |-> [seen EXCEPT !.outcome = "trained", !.kept = FALSE]]

----------------------------------------------------------------------------
(* DataTransformer.preprocessConsumptionData (dataTransformer.ts:5-101)    *)
(* Strings that may be missing are "" when missing (the code tests them by *)
(* truthiness).  Event dates are instants in half days.                    *)

\* String.prototype.toLowerCase on the names of the model
Lower(name) == IF name = "Milk" THEN "milk" ELSE name

\* positions of the events of an item, in array order
EventsOf(itemEvents, itemId) ==
    SelectSeq(itemEvents, LAMBDA e : e.item_id = itemId)

\* Object.entries(itemLifecycles): item ids in order of first appearance
\* (the ids of the model are not integer-like, so insertion order applies)
RECURSIVE ItemIdsInOrder(_, _)
ItemIdsInOrder(itemEvents, seen) ==
    IF itemEvents = <<>> THEN seen
    ELSE ItemIdsInOrder(Tail(itemEvents),
             IF \E i \in 1..Len(seen) : seen[i] = itemEvents[1].item_id
             THEN seen ELSE Append(seen, itemEvents[1].item_id))

\* events.sort((a, b) => date(a) - date(b)): stable, ascending
RECURSIVE InsertByDate(_, _)
InsertByDate(sorted, e) ==
    IF sorted = <<>> THEN <<e>>
    ELSE IF sorted[1].event_date <= e.event_date
         THEN <<sorted[1]>> \o InsertByDate(Tail(sorted), e)
         ELSE <<e>> \o sorted

RECURSIVE SortByDate(_)
SortByDate(events) ==
    IF events = <<>> THEN <<>>
    ELSE InsertByDate(SortByDate(SubSeq(events, 1, Len(events) - 1)), events[Len(events)])

\* Array.prototype.find: <<first match>> or <<>>
Find(seq, Test(_)) == Take(SelectSeq(seq, Test), 1)

\* Mutant: any consume, expire or discard event ends the lifecycle, also one
\* dated before the add event.
IsTerminalAnyTime(e, addDate) == e.event_type \in {"consume", "expire", "discard"}

\* ['consume', 'expire', 'discard'].includes(e.event_type) &&
\* new Date(e.event_date) > new Date(addEvent.event_date)
IsTerminalAfter(e, addDate) ==
    /\ e.event_type \in {"consume", "expire", "discard"}
    /\ e.event_date > addDate

\* The training example of one item id, <<>> when its lifecycle is incomplete.
LifecycleExample(consumptionPatterns, itemEvents, itemId) ==
    LET events   == SortByDate(EventsOf(itemEvents, itemId))
        adds     == Find(events, LAMBDA e : e.event_type = "add")
        addDate  == IF adds = <<>> THEN 0 ELSE adds[1].event_date
        terms    == Find(events, LAMBDA e : IsTerminalAfter(e, addDate))
        \* userItemMap, itemMetadata: the last assignment in array order wins
        mine     == EventsOf(itemEvents, itemId)
        userId   == mine[Len(mine)].user_id
        withMeta == SelectSeq(mine, LAMBDA e : e.item_name # "" /\ e.category # "")
        metaName == IF withMeta = <<>> THEN "" ELSE withMeta[Len(withMeta)].item_name
        metaCat  == IF withMeta = <<>> THEN "" ELSE withMeta[Len(withMeta)].category
    IN  IF adds = <<>> \/ terms = <<>> THEN <<>>
        ELSE LET terminal == terms[1]
                 itemName == IF metaName # "" THEN metaName ELSE terminal.item_name
                 category == IF metaCat # "" THEN metaCat ELSE terminal.category
                 matching == IF itemName = "" THEN <<>>
                             ELSE Find(consumptionPatterns,
                                       LAMBDA q : /\ q.user_id = userId
                                                  /\ Lower(q.item_name) = Lower(itemName))
             IN  <<[item_id   |-> itemId,
                    user_id   |-> userId,
                    item_name |-> IF itemName # "" THEN itemName ELSE "Item",
                    category  |-> IF category # "" THEN category
                                  ELSE IF matching # <<>> THEN matching[1].category
                                  ELSE "Unknown",
                    consumption_count |->
                        IF matching # <<>> THEN matching[1].consumption_count ELSE 0,
                    average_consumption_days |->
                        IF matching # <<>> THEN matching[1].average_consumption_days ELSE None,
                    actual_lifespan_days |-> DaysBetween(terminal.event_date, addDate),
                    outcome   |-> terminal.event_type]>>

RECURSIVE ExamplesOf(_, _, _)
ExamplesOf(consumptionPatterns, itemEvents, ids) ==
    IF ids = <<>> THEN <<>>
    ELSE LifecycleExample(consumptionPatterns, itemEvents, ids[1])
         \o ExamplesOf(consumptionPatterns, itemEvents, Tail(ids))

PreprocessConsumptionData(consumptionPatterns, itemEvents) ==
    ExamplesOf(consumptionPatterns, itemEvents, ItemIdsInOrder(itemEvents, <<>>))

----------------------------------------------------------------------------
(* ConsumptionPredictor (mlModels/consumptionPredictor.ts)                 *)
(* userPatterns (user_id -> category -> patterns) is modelled as the       *)
(* sequence of its (user, category) entries in insertion order.            *)

HasEntry(up, userId, category) ==
    \E i \in 1..Len(up) : up[i].user_id = userId /\ up[i].category = category

\* this.userPatterns[userId][category].push(pattern), creating the entry
PushPattern(up, pattern) ==
    IF HasEntry(up, pattern.user_id, pattern.category)
    THEN [i \in 1..Len(up) |->
            IF up[i].user_id = pattern.user_id /\ up[i].category = pattern.category
            THEN [up[i] EXCEPT !.patterns = Append(@, pattern)]
            ELSE up[i]]
    ELSE Append(up, [user_id |-> pattern.user_id, category |-> pattern.category,
                     patterns |-> <<pattern>>])

RECURSIVE PushAll(_, _)
PushAll(up, consumptionPatterns) ==
    IF consumptionPatterns = <<>> THEN up
    ELSE PushAll(PushPattern(up, consumptionPatterns[1]), Tail(consumptionPatterns))

\* patterns.sort((a, b) => b.consumption_count - a.consumption_count): stable
RECURSIVE InsertByCount(_, _)
InsertByCount(sorted, pattern) ==
    IF sorted = <<>> THEN <<pattern>>
    ELSE IF sorted[1].consumption_count >= pattern.consumption_count
         THEN <<sorted[1]>> \o InsertByCount(Tail(sorted), pattern)
         ELSE <<pattern>> \o sorted

RECURSIVE SortByCount(_)
SortByCount(patterns) ==
    IF patterns = <<>> THEN <<>>
    ELSE InsertByCount(SortByCount(SubSeq(patterns, 1, Len(patterns) - 1)),
                       patterns[Len(patterns)])

\* ConsumptionPredictor.train: the patterns are pushed onto the lists already
\* held in this.userPatterns (the constructor alone empties it), then every
\* list is sorted.
ConsumptionTrain(up, consumptionPatterns) ==
    LET pushed == PushAll(up, consumptionPatterns)
    IN  [i \in 1..Len(pushed) |->
            [pushed[i] EXCEPT !.patterns = SortByCount(@)]]

\* one ConsumptionPrediction; confidence = Math.min(count / 10, 0.9) in tenths
PredictionOf(pattern) ==
    [item_name       |-> pattern.item_name,
     category        |-> pattern.category,
     days_until_next |-> OrElse(pattern.average_consumption_days, 30),
     confidence      |-> <<Min(pattern.consumption_count, 9), 10>>]

\* predictions.sort((a, b) => b.confidence - a.confidence): stable
RECURSIVE InsertByConfidence(_, _)
InsertByConfidence(sorted, pred) ==
    IF sorted = <<>> THEN <<pred>>
    ELSE IF sorted[1].confidence[1] >= pred.confidence[1]
         THEN <<sorted[1]>> \o InsertByConfidence(Tail(sorted), pred)
         ELSE <<pred>> \o sorted

RECURSIVE SortByConfidence(_)
SortByConfidence(preds) ==
    IF preds = <<>> THEN <<>>
    ELSE InsertByConfidence(SortByConfidence(SubSeq(preds, 1, Len(preds) - 1)),
                            preds[Len(preds)])

\* the average of the confidences (all in tenths), 0 without predictions
AverageConfidence(preds) ==
    IF preds = <<>> THEN <<0, 1>>
    ELSE <<SumSeq([i \in 1..Len(preds) |-> preds[i].confidence[1]]), 10 * Len(preds)>>

\* predictNextConsumption(userId, category); category "" is the call without
\* a category (null is falsy, and so is "")
PredictNextConsumption(up, userId, category) ==
    LET ofUser == SelectSeq(up, LAMBDA e : e.user_id = userId)
        inCat  == SelectSeq(ofUser, LAMBDA e : e.category = category)
        preds  ==
            IF category # ""
            THEN IF inCat = <<>> THEN <<>>
                 ELSE LET top == Take(inCat[1].patterns, 3)
                      IN  [i \in 1..Len(top) |-> PredictionOf(top[i])]
            ELSE SortByConfidence([i \in 1..Len(ofUser) |-> PredictionOf(ofUser[i].patterns[1])])
    IN  [predictions |-> preds, confidence |-> AverageConfidence(preds)]

----------------------------------------------------------------------------
(* MLService (services/mlService.ts)                                       *)
(* Confidences and risks are fractions <<numerator, denominator>> with a   *)
(* positive denominator.                                                   *)

RECURSIVE Gcd(_, _)
Gcd(a, b) == IF b = 0 THEN a ELSE Gcd(b, a % b)

\* a fraction in lowest terms (the same number); denominator 0 stays 0 / 0
Reduce(a) ==
    IF a[2] = 0 THEN <<0, 0>>
    ELSE LET g == Gcd(IF a[1] < 0 THEN -a[1] ELSE a[1], a[2])
         IN  <<a[1] \div g, a[2] \div g>>

RatAdd(a, b) == Reduce(<<a[1] * b[2] + b[1] * a[2], a[2] * b[2]>>)

RatScale(n, d, a) == Reduce(<<n * a[1], d * a[2]>>)

RatGt(a, b) == a[1] * b[2] > b[1] * a[2]

\* Math.round of the fraction num/den (den > 0), also below zero
MathRoundRat(num, den) == (2 * num + den) \div (2 * den)

\* The instant Date.now() / new Date() yields, in half days; the requests of
\* the model all fall on this instant.
Now == 40

\* if (!this.isModelsTrained) await this.trainModels()
\* Mutant: the flag is never consulted, no operation trains first.
NeedsTrainingNever(flag) == FALSE

NeedsTraining(flag) == ~flag

Requests == {"r1", "r2"}

PredictionOps ==
    {"predictItemOutcome", "analyzeInventory", "predictConsumptionByCategory",
     "predictConsumptionTrend"}

Operations == {"trainModels"} \cup PredictionOps

\* the pool.execute calls an operation awaits after the is-trained check
Awaits(op) ==
    CASE op = "predictItemOutcome" -> 3
      [] op = "analyzeInventory" -> 3
      [] op = "predictConsumptionByCategory" -> 1
      [] op = "predictConsumptionTrend" -> 1
      [] OTHER -> 0

NoRequest ==
    [op |-> "none", pc |-> "idle", userId |-> "", itemId |-> "", lazy |-> FALSE,
     left |-> 0, outcome |-> "none", cause |-> "", result |-> <<>>, sawRuns |-> -1,
     startRuns |-> -1, startBusy |-> FALSE]

\* Math.max(0, Math.floor((expiryDate - Date.now()) / day)), null without a date
DaysUntilExpiry(item) ==
    IF item.expiryDate = None THEN None
    ELSE Some(Max(0, DaysBetween(item.expiryDate[1], Now)))

\* the featureVector of analyzeInventory and predictItemOutcome
FeatureVector(item, patternRow, userId) ==
    [item_id   |-> item.id,
     item_name |-> item.name,
     category  |-> item.category,
     consumption_count |-> IF patternRow # <<>> THEN patternRow[1].consumption_count ELSE 0,
     average_consumption_days |->
         IF patternRow # <<>> THEN patternRow[1].average_consumption_days ELSE None,
     days_until_expiry |-> DaysUntilExpiry(item),
     status    |-> item.status,
     user_id   |-> userId]

\* calculateUsageStats(events, item)
RECURSIVE ConsumeIntervals(_)
ConsumeIntervals(dates) ==
    IF Len(dates) < 2 THEN <<>>
    ELSE (IF DaysBetween(dates[1], dates[2]) > 0
          THEN <<DaysBetween(dates[1], dates[2])>> ELSE <<>>)
         \o ConsumeIntervals(Tail(dates))

CalculateUsageStats(events) ==
    LET consumed  == SelectSeq(events, LAMBDA e : e.event_type = "consume")
        \* newest first already; the sort of the code keeps that order
        dates     == [i \in 1..Len(consumed) |-> consumed[i].event_date]
        intervals == ConsumeIntervals(dates)
    IN  IF events = <<>>
        THEN [consumption_count |-> 0, last_consumed |-> None,
              typical_purchase_frequency |-> None]
        ELSE [consumption_count |-> Len(events),
              last_consumed |-> IF dates = <<>> THEN None ELSE Some(dates[1]),
              typical_purchase_frequency |->
                  IF intervals = <<>> THEN None
                  ELSE Some(MathRound(SumSeq(intervals), Len(intervals)))]

\* SELECT * FROM items WHERE id = ?
ItemRows(items, itemId) == SelectSeq(items, LAMBDA i : i.id = itemId)

\* SELECT * FROM consumption_patterns WHERE user_id = ? AND item_name = ?
\* (the comparison of the store ignores case)
PatternRows(patterns, userId, itemName) ==
    SelectSeq(patterns, LAMBDA q : q.user_id = userId /\ itemName # ""
                                   /\ Lower(q.item_name) = Lower(itemName))

\* item_events e JOIN items i ... WHERE user, category, 'consume' ... LIMIT 10
CategoryConsumeEvents(events, items, userId, category) ==
    Take(SelectSeq(events, LAMBDA e :
            /\ e.user_id = userId
            /\ e.event_type = "consume"
            /\ \E n \in 1..Len(items) : items[n].id = e.item_id
                                        /\ items[n].category = category), 10)

\* predictItemOutcome, from the rows found to the answer
ItemOutcome(data, kk, patterns, events, items, userId, item) ==
    LET feature    == FeatureVector(item, Take(PatternRows(patterns, userId, item.name), 1),
                                    userId)
        prediction == KNNPredict(data, kk, feature)
    IN  [item_id |-> item.id,
         days_until_expiry |-> feature.days_until_expiry,
         prediction |-> prediction.prediction,
         confidence |-> prediction.confidence,
         estimated_days |-> prediction.days,
         usage_stats |-> CalculateUsageStats(
                             CategoryConsumeEvents(events, items, userId, item.category))]

\* analyzeInventory --------------------------------------------------------

\* SELECT * FROM items WHERE userId = ? AND status = 'active' ORDER BY expiry
ActiveItems(items, userId) ==
    SelectSeq(items, LAMBDA i : i.userId = userId /\ i.status = "active")

\* SELECT * FROM consumption_patterns WHERE user_id = ?
UserPatternRows(patterns, userId) == SelectSeq(patterns, LAMBDA q : q.user_id = userId)

\* patternMap.get(name.toLowerCase()): Map.set keeps the last row of a key
PatternMapGet(rows, name) ==
    LET hits == SelectSeq(rows, LAMBDA q : Lower(q.item_name) = Lower(name))
    IN  IF hits = <<>> THEN <<>> ELSE <<hits[Len(hits)]>>

RECURSIVE DistinctInOrder(_, _)
DistinctInOrder(seq, seen) ==
    IF seq = <<>> THEN seen
    ELSE DistinctInOrder(Tail(seq),
             IF \E i \in 1..Len(seen) : seen[i] = seq[1] THEN seen ELSE Append(seen, seq[1]))

\* the GROUP BY i.category query over items LEFT JOIN item_events
CategoryStats(items, events, userId) ==
    LET mine == SelectSeq(items, LAMBDA i : i.userId = userId)
        cats == DistinctInOrder([n \in 1..Len(mine) |-> mine[n].category], <<>>)
        Joined(cat, type) ==
            Cardinality({<<n, m>> \in (1..Len(mine)) \X (1..Len(events)) :
                            /\ mine[n].category = cat
                            /\ events[m].item_id = mine[n].id
                            /\ events[m].event_type = type})
    IN  [c \in 1..Len(cats) |->
            [category      |-> cats[c],
             item_count    |-> Cardinality({n \in 1..Len(mine) : mine[n].category = cats[c]}),
             consume_count |-> Joined(cats[c], "consume"),
             expire_count  |-> Joined(cats[c], "expire")]]

\* categoryWasteRisk.get(category) || 0
CategoryWasteRisk(stats, category) ==
    LET hits == SelectSeq(stats, LAMBDA st : st.category = category)
    IN  IF hits = <<>> \/ hits[1].consume_count + hits[1].expire_count = 0 THEN <<0, 1>>
        ELSE <<hits[1].expire_count, hits[1].consume_count + hits[1].expire_count>>

\* Mutant: the two weights of the 'expire' score are exchanged.
RiskScoreSwapped(prediction, categoryRisk) ==
    IF prediction.prediction = "expire"
    THEN RatAdd(RatScale(3, 10, prediction.confidence), RatScale(7, 10, categoryRisk))
    ELSE RatAdd(RatScale(3, 10, categoryRisk), RatScale(-1, 10, prediction.confidence))

\* 0.7*confidence + 0.3*categoryRisk for 'expire',
\* 0.3*categoryRisk - 0.1*confidence otherwise
RiskScore(prediction, categoryRisk) ==
    IF prediction.prediction = "expire"
    THEN RatAdd(RatScale(7, 10, prediction.confidence), RatScale(3, 10, categoryRisk))
    ELSE RatAdd(RatScale(3, 10, categoryRisk), RatScale(-1, 10, prediction.confidence))

\* Mutant: the thresholds are read in twentieths, 0.35 and 0.2.
RiskLevelHalved(risk, high, medium) ==
    IF RatGt(risk, <<high, 20>>) THEN "high"
    ELSE IF RatGt(risk, <<medium, 20>>) THEN "medium" ELSE "low"

\* riskScore > 0.7 ? 'high' : riskScore > 0.4 ? 'medium' : 'low', the
\* thresholds in tenths
RiskLevel(risk, high, medium) ==
    IF RatGt(risk, <<high, 10>>) THEN "high"
    ELSE IF RatGt(risk, <<medium, 10>>) THEN "medium" ELSE "low"

\* the body of items.map: <<analysis>>, or <<>> when it threw (a missing
\* name has no toLowerCase) and the catch returned null
AnalyzeItem(data, kk, rows, stats, userId, item) ==
    IF item.name = "" THEN <<>>
    ELSE LET pattern    == PatternMapGet(rows, item.name)
             feature    == FeatureVector(item, pattern, userId)
             prediction == KNNPredict(data, kk, feature)
             risk       == RiskScore(prediction, CategoryWasteRisk(stats, item.category))
         IN  <<[id |-> item.id,
                name |-> item.name,
                category |-> item.category,
                days_until_expiry |-> feature.days_until_expiry,
                prediction |-> prediction,
                risk_score |-> risk,
                risk_level |-> RiskLevel(risk, 7, 4)]>>

RECURSIVE AnalyzeAll(_, _, _, _, _, _)
AnalyzeAll(data, kk, rows, stats, userId, items) ==
    IF items = <<>> THEN <<>>
    ELSE AnalyzeItem(data, kk, rows, stats, userId, items[1])
         \o AnalyzeAll(data, kk, rows, stats, userId, Tail(items))

\* validAnalyses.sort((a, b) => b.risk_score - a.risk_score): stable
RECURSIVE InsertByRisk(_, _)
InsertByRisk(sorted, a) ==
    IF sorted = <<>> THEN <<a>>
    ELSE IF RatGt(a.risk_score, sorted[1].risk_score)
         THEN <<a>> \o sorted
         ELSE <<sorted[1]>> \o InsertByRisk(Tail(sorted), a)

RECURSIVE SortByRisk(_)
SortByRisk(analyses) ==
    IF analyses = <<>> THEN <<>>
    ELSE InsertByRisk(SortByRisk(SubSeq(analyses, 1, Len(analyses) - 1)),
                      analyses[Len(analyses)])

RECURSIVE RatSum(_)
RatSum(analyses) ==
    IF analyses = <<>> THEN <<0, 1>>
    ELSE RatAdd(analyses[1].risk_score, RatSum(Tail(analyses)))

\* the summary; a fraction with denominator 0 stands for NaN (0 / 0)
InventorySummary(valid) ==
    LET total == RatSum(valid)
        risk  == Reduce(<<total[1], total[2] * Len(valid)>>)
    IN  [total_items     |-> Len(valid),
         expiring_soon   |-> Cardinality({i \in 1..Len(valid) :
                                 /\ valid[i].days_until_expiry # None
                                 /\ valid[i].days_until_expiry[1] <= 7}),
         high_risk_items |-> Cardinality({i \in 1..Len(valid) :
                                 valid[i].risk_level = "high"}),
         waste_risk      |-> risk,
         waste_risk_level |-> RiskLevel(risk, 6, 3)]

EmptyInventory ==
    [items |-> <<>>,
     summary |-> [total_items |-> 0, expiring_soon |-> 0, waste_risk |-> <<0, 1>>]]

\* analyzeInventory, from the rows found to the answer (items not empty)
InventoryAnalysis(data, kk, patterns, events, items, userId) ==
    LET valid == SortByRisk(AnalyzeAll(data, kk, UserPatternRows(patterns, userId),
                                       CategoryStats(items, events, userId), userId,
                                       ActiveItems(items, userId)))
    IN  [items |-> valid, summary |-> InventorySummary(valid)]

\* predictConsumptionByCategory ---------------------------------------------

\* SELECT DISTINCT category ... WHERE user_id = ? ORDER BY category
CategoryOrder == <<"Dairy", "Meat">>

UserCategories(patterns, userId) ==
    SelectSeq(CategoryOrder, LAMBDA c :
        \E i \in 1..Len(patterns) : patterns[i].user_id = userId /\ patterns[i].category = c)

ConsumptionByCategory(up, patterns, userId) ==
    LET cats == UserCategories(patterns, userId)
    IN  [overall     |-> PredictNextConsumption(up, userId, ""),
         by_category |-> [c \in 1..Len(cats) |->
                             [category |-> cats[c],
                              result   |-> PredictNextConsumption(up, userId, cats[c])]]]

\* predictConsumptionTrend --------------------------------------------------

\* toISOString().split('T')[0]: the calendar day of an instant
DayOf(instant) == instant \div 2

\* ... WHERE user_id = ? AND event_type = 'consume' ... LIMIT 30
RecentConsumeEvents(events, userId) ==
    Take(SelectSeq(events, LAMBDA e : e.user_id = userId /\ e.event_type = "consume"), 30)

Last14Days(events) ==
    [i \in 1..14 |->
        Cardinality({m \in 1..Len(events) :
                        DayOf(events[m].event_date) = DayOf(Now) - 14 + i})]

\* seven times the moving average of the window that starts at position i
WindowSum(days, i) == SumSeq(SubSeq(days, i, i + 6))

\* Mutant: the trend is spread over the 8 moving-average points, not over
\* the 7 steps between them.
TrendValuePerPoint(days, i) ==
    Max(0, MathRoundRat(8 * WindowSum(days, 8) + i * (WindowSum(days, 8) - WindowSum(days, 1)),
                        56))

\* Math.max(0, Math.round(lastMA + trend * i)), trend = (lastMA - firstMA) / 7
TrendValue(days, i) ==
    Max(0, MathRoundRat(7 * WindowSum(days, 8) + i * (WindowSum(days, 8) - WindowSum(days, 1)),
                        49))

TrendForecast(events, userId) ==
    LET days == Last14Days(RecentConsumeEvents(events, userId))
    IN  [historical |-> days,
         values     |-> [i \in 1..7 |-> TrendValue(days, i)],
         confidence |-> <<6, 10>>,
         error      |-> FALSE]

\* the catch of predictConsumptionTrend
TrendFallback ==
    [historical |-> <<>>, values |-> [i \in 1..7 |-> 0], error |-> TRUE]

----------------------------------------------------------------------------
(* SpecKNN: a predictor constructed with some k and trained on some data   *)
(* set answers queries.                                                    *)

MaxTrain == 3

KValues == {1, 2, 3, 5}

KNNCategories == {"Dairy", "Meat"}

\* (consumption_count, average_consumption_days) of a pattern, or 0/null
KNNProfiles == {<<0, None>>, <<10, Some(27)>>}

\* (actual_lifespan_days, outcome)
KNNLifecycles == {<<0, "consume">>, <<5, "expire">>, <<5, "discard">>}

KNNPoints ==
    {[category |-> c, consumption_count |-> p[1], average_consumption_days |-> p[2],
      actual_lifespan_days |-> l[1], outcome |-> l[2]] :
        c \in KNNCategories, p \in KNNProfiles, l \in KNNLifecycles}

KNNQueries ==
    {[category |-> c, consumption_count |-> p[1], average_consumption_days |-> p[2]] :
        c \in {"Dairy", "Fish"}, p \in KNNProfiles}

NoItem == [category |-> "", consumption_count |-> 0, average_consumption_days |-> None]

NoResult == [prediction |-> "none", confidence |-> <<0, 1>>, days |-> 0]

KNNIdle ==
    /\ k = 5
    /\ trainingData = <<>>
    /\ knnItem = NoItem
    /\ knnNeighbors = <<>>
    /\ knnResult = NoResult

RFIdle ==
    /\ rfPool = <<>>
    /\ regressionModel = NoModel
    /\ classificationModel = NoModel
    /\ categoryEncoder = <<>>
    /\ rfRuns = 0
    /\ rfLast = NoTrainCall

NoFeatures == [threw |-> FALSE, vector |-> <<>>, encoder |-> <<>>]

NoPattern ==
    [category |-> "", average_consumption_days |-> NullV, consumption_count |-> NullV,
     last_consumed |-> NullV]

NoInventoryItem == [expiryDate |-> NullV, created_at |-> NullV]

NoFeatureCall ==
    [hasPattern |-> FALSE, pattern |-> NoPattern, hasItem |-> FALSE, item |-> NoInventoryItem,
     userStats |-> [total_items |-> NullV, avg_frequency |-> NullV],
     currentDate |-> [time |-> 0, month |-> 1], called |-> FALSE]

FeatIdle ==
    /\ featIn = NoFeatureCall
    /\ featOut = NoFeatures

CallIdle ==
    /\ callArgs = <<>>
    /\ callResult = <<>>

SvcIdle ==
    /\ dbPatterns = <<>>
    /\ dbEvents = <<>>
    /\ dbItems = <<>>
    /\ userPatterns = <<>>
    /\ isModelsTrained = FALSE
    /\ lastTrainingTime = None
    /\ req = [r \in Requests |-> NoRequest]
    /\ trainRuns = 0
    /\ firstModel = <<>>
    /\ processedCount = <<>>

InitKNN ==
    /\ RFIdle
    /\ FeatIdle
    /\ CallIdle
    /\ SvcIdle
    /\ k \in KValues
    /\ trainingData \in SeqsUpTo(KNNPoints, MaxTrain)
    /\ knnItem = NoItem
    /\ knnNeighbors = <<>>
    /\ knnResult = NoResult

KNNPredictCall(item) ==
    /\ knnItem' = item
    /\ knnNeighbors' = IF Len(trainingData) = 0 THEN <<>>
                       ELSE KNNNeighbors(trainingData, item, k)
    /\ knnResult' = KNNPredict(trainingData, k, item)
    /\ UNCHANGED <<k, trainingData, rfVars, featVars, callVars, svcVars>>

NextKNN == \E item \in KNNQueries : KNNPredictCall(item)

SpecKNN == InitKNN /\ [][NextKNN]_vars

----------------------------------------------------------------------------
(* SpecRF: train(pool) is called repeatedly on one predictor; the pool     *)
(* returns the same consumption_patterns rows every time.                  *)

MaxPool == 2

MaxRuns == 2

\* consumption_count as the pool returns it: a rare item, a frequent item, and
\* a non-finite value injected by the caller's pool
RFCounts == {Num(3), Num(6), InfV}

RFPatternRows ==
    {[user_id |-> "u1", category |-> c, average_consumption_days |-> Num(10),
      consumption_count |-> n] :
        c \in {"Dairy", "Meat"}, n \in RFCounts}

\* Math.random() * 10, rounded down: the two ends of its range
RandomDraws == {0, 9}

TrainFaults == {"none", "query", "regression", "classification"}

InitRF ==
    /\ KNNIdle
    /\ FeatIdle
    /\ CallIdle
    /\ SvcIdle
    /\ rfPool \in SeqsUpTo(RFPatternRows, MaxPool)
    /\ regressionModel = NoModel
    /\ classificationModel = NoModel
    /\ categoryEncoder = <<>>
    /\ rfRuns = 0
    /\ rfLast = NoTrainCall

\* One train(pool) call.  failed: the user-stats queries that throw;
\* r: the value Math.random() takes; the step that throws, if any, is chosen
\* among TrainFaults.
RFTrain(failed, r) ==
    /\ rfRuns < MaxRuns
    /\ \E prep \in {PrepareTrainingData(rfPool, failed, categoryEncoder, r)} :
       \E clean \in {ValidateTrainingData(prep.data)} :
       \E fault \in TrainFaults :
       \E res \in {TrainResult(prep, clean, categoryEncoder, fault, rfRuns + 1,
                               regressionModel, classificationModel)} :
           /\ regressionModel' = res.regression
           /\ classificationModel' = res.classification
           /\ categoryEncoder' = res.encoder
           /\ rfLast' = res.last
    /\ rfRuns' = rfRuns + 1
    /\ UNCHANGED <<rfPool, knnVars, featVars, callVars, svcVars>>

NextRF ==
    \E failed \in SUBSET (1..Len(rfPool)), r \in RandomDraws : RFTrain(failed, r)

SpecRF == InitRF /\ [][NextRF]_vars

----------------------------------------------------------------------------
(* SpecFeat: extractFeatures followed by featuresToArray, on arguments     *)
(* whose fields may be null or missing.                                    *)

\* Friday 4 October 2024 00:00, Saturday 12:00, Sunday 00:00
FeatDates == {[time |-> t, month |-> 10] : t \in {40000, 40003, 40004}}

FeatPatterns ==
    [category : {"Dairy", "Meat"},
     average_consumption_days : {NullV, Num(10)},
     consumption_count : {NullV, Num(6)},
     last_consumed : {NullV, Num(39990)}]

FeatItems == [expiryDate : {NullV, Num(40011), Num(39995)}, created_at : {NullV, Num(39980)}]

FeatStats == [total_items : {NullV, Num(4)}, avg_frequency : {NullV, Num(12)}]

FeatCalls ==
    {[hasPattern |-> hp, pattern |-> p, hasItem |-> hi, item |-> i, userStats |-> u,
      currentDate |-> d, called |-> FALSE] :
        hp \in BOOLEAN, p \in FeatPatterns, hi \in BOOLEAN, i \in FeatItems,
        u \in FeatStats, d \in FeatDates}

InitFeat ==
    /\ KNNIdle
    /\ SvcIdle
    /\ rfPool = <<>>
    /\ regressionModel = NoModel
    /\ classificationModel = NoModel
    /\ categoryEncoder \in {<<>>, <<"Meat">>}
    /\ rfRuns = 0
    /\ rfLast = NoTrainCall
    /\ featIn \in {c \in FeatCalls :
                      /\ ~c.hasPattern => c.pattern = NoPattern
                      /\ ~c.hasItem => c.item = NoInventoryItem}
    /\ featOut = NoFeatures
    /\ CallIdle

ExtractFeaturesCall ==
    /\ ~featIn.called
    /\ \E res \in {ExtractFeatures(featIn.hasPattern, featIn.pattern, featIn.currentDate,
                                    featIn.hasItem, featIn.item, featIn.userStats,
                                    categoryEncoder)} :
           /\ featOut' = res
           /\ categoryEncoder' = res.encoder
    /\ featIn' = [featIn EXCEPT !.called = TRUE]
    /\ UNCHANGED <<knnVars, rfPool, regressionModel, classificationModel, rfRuns, rfLast,
                   svcVars, callVars>>

NextFeat == ExtractFeaturesCall

SpecFeat == InitFeat /\ [][NextFeat]_vars

----------------------------------------------------------------------------
(* Spec: the MLService singleton serving requests over a store that does   *)
(* not change.  A request runs from one await to the next in one step; the *)
(* steps of different requests interleave as the event loop allows.        *)

Row(user, name, category, avg, count) ==
    [user_id |-> user, item_name |-> name, category |-> category,
     average_consumption_days |-> avg, consumption_count |-> count]

\* consumption_patterns rows, unique per (user_id, item_name)
PatternTable ==
    <<Row("u1", "milk", "Dairy", Some(4), 6),
      Row("u1", "cheese", "Dairy", None, 9),
      Row("u1", "beef", "Meat", Some(7), 2),
      Row("u2", "milk", "Dairy", Some(2), 3)>>

Event(user, item, type, date, name, category) ==
    [user_id |-> user, item_id |-> item, event_type |-> type, event_date |-> date,
     item_name |-> name, category |-> category]

\* item_events contents, ORDER BY event_date DESC; item_name / category are
\* the snapshot columns, "" when the row carries none
EventTables ==
    {<<>>,
     <<Event("u1", "a", "consume", 36, "", ""),
       Event("u1", "a", "expire", 30, "Milk", "Dairy"),
       Event("u1", "a", "add", 20, "", "")>>,
     <<Event("u1", "b", "discard", 34, "", ""),
       Event("u1", "b", "add", 33, "", "")>>,
     <<Event("u1", "a", "consume", 36, "", ""),
       Event("u1", "b", "discard", 34, "", ""),
       Event("u1", "b", "add", 33, "", ""),
       Event("u1", "a", "expire", 30, "Milk", "Dairy"),
       Event("u1", "a", "add", 20, "", "")>>}

Item(id, name, category, expiry) ==
    [id |-> id, name |-> name, category |-> category, expiryDate |-> expiry,
     status |-> "active", userId |-> "u1"]

\* items contents, ORDER BY expiryDate IS NULL, expiryDate ASC; name "" is a
\* row without a name
ItemTables ==
    {<<>>,
     <<Item("a", "Milk", "Dairy", Some(50))>>,
     <<Item("a", "Milk", "Dairy", Some(50)), Item("b", "", "Meat", None)>>}

ItemIds == {"a", "zz"}

Init ==
    /\ KNNIdle
    /\ RFIdle
    /\ FeatIdle
    /\ CallIdle
    /\ dbPatterns \in {SubSeq(PatternTable, 1, n) : n \in 0..Len(PatternTable)}
    /\ dbEvents \in EventTables
    /\ dbItems \in ItemTables
    /\ userPatterns = <<>>
    /\ isModelsTrained = FALSE
    /\ lastTrainingTime = None
    /\ req = [r \in Requests |-> NoRequest]
    /\ trainRuns = 0
    /\ firstModel = <<>>
    /\ processedCount = <<>>

\* what a request that threw leaves: predictConsumptionTrend catches and
\* answers with the fallback, the other operations rethrow
\* Mutant: predictConsumptionTrend rethrows like the other operations.
ThrownRethrows(rq, cause) == [rq EXCEPT !.pc = "done", !.outcome = "error", !.cause = cause]

\* cause: "store" for a pool.execute that threw, "not-found" for the Error
\* predictItemOutcome raises itself
Thrown(rq, cause) ==
    IF rq.op = "predictConsumptionTrend"
    THEN [rq EXCEPT !.pc = "done", !.outcome = "fallback", !.cause = cause,
                    !.result = <<TrendFallback>>]
    ELSE [rq EXCEPT !.pc = "done", !.outcome = "error", !.cause = cause]

Answer(rq, result) == [rq EXCEPT !.pc = "done", !.outcome = "ok", !.result = <<result>>]

\* Mutant: every call is recorded as a row of item_events.
StartRecording(r, op, itemId) ==
    /\ req[r].pc = "idle"
    /\ req' = [req EXCEPT ![r] =
                 [NoRequest EXCEPT
                    !.op = op,
                    !.userId = "u1",
                    !.itemId = IF op = "predictItemOutcome" THEN itemId ELSE "",
                    !.lazy = op \in PredictionOps /\ NeedsTraining(isModelsTrained),
                    !.pc = IF op = "trainModels" \/ NeedsTraining(isModelsTrained)
                           THEN "train_patterns" ELSE "fetch",
                    !.left = Awaits(op),
                    !.startRuns = trainRuns,
                    !.startBusy = \E q \in Requests \ {r} : req[q].pc \notin {"idle", "done"}]]
    /\ dbEvents' = <<Event("u1", itemId, "view", Now, "", "")>> \o dbEvents
    /\ UNCHANGED <<knnVars, rfVars, featVars, callVars, dbPatterns, dbItems, userPatterns,
                   isModelsTrained, lastTrainingTime, trainRuns, firstModel, processedCount>>

\* An operation is called: it runs up to its first await, which is the first
\* query of trainModels or the operation's own first query.
Start(r, op, itemId) ==
    /\ req[r].pc = "idle"
    /\ req' = [req EXCEPT ![r] =
                 [NoRequest EXCEPT
                    !.op = op,
                    !.userId = "u1",
                    !.itemId = IF op = "predictItemOutcome" THEN itemId ELSE "",
                    !.lazy = op \in PredictionOps /\ NeedsTraining(isModelsTrained),
                    !.pc = IF op = "trainModels" \/ NeedsTraining(isModelsTrained)
                           THEN "train_patterns" ELSE "fetch",
                    !.left = Awaits(op),
                    !.startRuns = trainRuns,
                    !.startBusy = \E q \in Requests \ {r} : req[q].pc \notin {"idle", "done"}]]
    /\ UNCHANGED <<knnVars, rfVars, featVars, callVars, storeVars, userPatterns, isModelsTrained,
                   lastTrainingTime, trainRuns, firstModel, processedCount>>

\* trainModels: SELECT * FROM consumption_patterns returns or throws
TrainPatternsFetched(r, ok) ==
    /\ req[r].pc = "train_patterns"
    /\ req' = [req EXCEPT ![r] = IF ok THEN [@ EXCEPT !.pc = "train_events"]
                                 ELSE Thrown(@, "store")]
    /\ UNCHANGED <<knnVars, rfVars, featVars, callVars, storeVars, userPatterns, isModelsTrained,
                   lastTrainingTime, trainRuns, firstModel, processedCount>>

\* Mutant: a trainModels run that throws clears the is-trained flag.
TrainEventsFetchedResetting(r, ok) ==
    /\ req[r].pc = "train_events"
    /\ IF ok
       THEN \E data \in {PreprocessConsumptionData(dbPatterns, dbEvents)} :
            \E up \in {ConsumptionTrain(userPatterns, dbPatterns)} :
               /\ trainingData' = data
               /\ userPatterns' = up
               /\ isModelsTrained' = TRUE
               /\ lastTrainingTime' = Some(Now)
               /\ trainRuns' = trainRuns + 1
               /\ firstModel' = IF trainRuns = 0 THEN <<data, up>> ELSE firstModel
               /\ req' = [req EXCEPT ![r] =
                            IF @.op = "trainModels"
                            THEN [@ EXCEPT !.pc = "done", !.outcome = "ok"]
                            ELSE [@ EXCEPT !.pc = "fetch"]]
       ELSE /\ req' = [req EXCEPT ![r] = Thrown(@, "store")]
            /\ isModelsTrained' = FALSE
            /\ UNCHANGED <<trainingData, userPatterns, lastTrainingTime, trainRuns, firstModel>>
    /\ UNCHANGED <<k, knnItem, knnNeighbors, knnResult, rfVars, featVars, callVars, storeVars,
                   processedCount>>

\* trainModels: SELECT * FROM item_events returns or throws; when it returns
\* the rest of trainModels runs: reshape, train both models, set the flag
TrainEventsFetched(r, ok) ==
    /\ req[r].pc = "train_events"
    /\ IF ok
       THEN \E data \in {PreprocessConsumptionData(dbPatterns, dbEvents)} :
            \E up \in {ConsumptionTrain(userPatterns, dbPatterns)} :
               /\ trainingData' = data
               /\ userPatterns' = up
               /\ isModelsTrained' = TRUE
               /\ lastTrainingTime' = Some(Now)
               /\ trainRuns' = trainRuns + 1
               /\ firstModel' = IF trainRuns = 0 THEN <<data, up>> ELSE firstModel
               /\ req' = [req EXCEPT ![r] =
                            IF @.op = "trainModels"
                            THEN [@ EXCEPT !.pc = "done", !.outcome = "ok"]
                            ELSE [@ EXCEPT !.pc = "fetch"]]
       ELSE /\ req' = [req EXCEPT ![r] = Thrown(@, "store")]
            /\ UNCHANGED <<trainingData, userPatterns, isModelsTrained, lastTrainingTime,
                           trainRuns, firstModel>>
    /\ UNCHANGED <<k, knnItem, knnNeighbors, knnResult, rfVars, featVars, callVars, storeVars,
                   processedCount>>

\* the request after one more of its own queries returned
AfterFetch(rq) ==
    LET more == [rq EXCEPT !.left = @ - 1]
        asks == [rq EXCEPT !.sawRuns = trainRuns]
    IN  CASE rq.op = "predictItemOutcome" ->
               IF rq.left = 3 /\ ItemRows(dbItems, rq.itemId) = <<>>
               THEN Thrown(rq, "not-found")
               ELSE IF rq.left > 1 THEN more
               ELSE Answer(asks, ItemOutcome(trainingData, k, dbPatterns, dbEvents, dbItems,
                                             rq.userId, ItemRows(dbItems, rq.itemId)[1]))
          [] rq.op = "analyzeInventory" ->
               IF rq.left = 3 /\ ActiveItems(dbItems, rq.userId) = <<>>
               THEN Answer(rq, EmptyInventory)
               ELSE IF rq.left > 1 THEN more
               ELSE Answer(IF \E i \in 1..Len(ActiveItems(dbItems, rq.userId)) :
                                 ActiveItems(dbItems, rq.userId)[i].name # ""
                           THEN asks ELSE rq,
                           InventoryAnalysis(trainingData, k, dbPatterns, dbEvents, dbItems,
                                             rq.userId))
          [] rq.op = "predictConsumptionByCategory" ->
               Answer(asks, ConsumptionByCategory(userPatterns, dbPatterns, rq.userId))
          [] OTHER ->
               Answer(rq, TrendForecast(dbEvents, rq.userId))

\* Mutant: a query that threw is issued again by the same request.
FetchedRetrying(r, ok) ==
    /\ req[r].pc = "fetch"
    /\ req' = [req EXCEPT ![r] = IF ok THEN AfterFetch(@) ELSE [@ EXCEPT !.cause = "store"]]
    /\ UNCHANGED <<knnVars, rfVars, featVars, callVars, storeVars, userPatterns, isModelsTrained,
                   lastTrainingTime, trainRuns, firstModel, processedCount>>

\* one of the operation's own queries returns or throws; after the last one
\* the operation queries the models and answers
Fetched(r, ok) ==
    /\ req[r].pc = "fetch"
    /\ req' = [req EXCEPT ![r] = IF ok THEN AfterFetch(@) ELSE Thrown(@, "store")]
    /\ UNCHANGED <<knnVars, rfVars, featVars, callVars, storeVars, userPatterns, isModelsTrained,
                   lastTrainingTime, trainRuns, firstModel, processedCount>>

Next ==
    \E r \in Requests :
        \/ \E op \in Operations, itemId \in ItemIds : Start(r, op, itemId)
        \/ \E ok \in BOOLEAN : TrainPatternsFetched(r, ok)
        \/ \E ok \in BOOLEAN : TrainEventsFetched(r, ok)
        \/ \E ok \in BOOLEAN : Fetched(r, ok)

Spec == Init /\ [][Next]_vars

----------------------------------------------------------------------------
(* SpecTrend: predictConsumptionTrend requests over stores whose consume   *)
(* events fall on chosen days of the 14-day history.                       *)

\* n consume events of a user on calendar day `day`, newest first; the first
\* half of them in the second half of the day (never after Now)
ConsumeRun(user, n, day) ==
    [i \in 1..n |->
        Event(user, "t", "consume",
              IF 2 * i <= n /\ 2 * day + 1 <= Now THEN 2 * day + 1 ELSE 2 * day, "", "")]

\* item_events with today / 5 days ago / 12 days ago / 20 days ago holding
\* nToday / nMid / nEarly / nOld consume events of u1, next to an event of
\* another user and an event of another type
TrendTable(nToday, nMid, nEarly, nOld) ==
    <<Event("u2", "t", "consume", Now, "", ""), Event("u1", "t", "add", Now, "", "")>>
    \o ConsumeRun("u1", nToday, DayOf(Now))
    \o ConsumeRun("u1", nMid, DayOf(Now) - 5)
    \o ConsumeRun("u1", nEarly, DayOf(Now) - 12)
    \o ConsumeRun("u1", nOld, DayOf(Now) - 20)

TrendEventTables ==
    {<<>>, TrendTable(31, 0, 1, 0)}
    \cup {TrendTable(a, b, c, d) : a \in 0..3, b \in {0, 2, 7}, c \in 0..3, d \in {0, 1}}

InitTrend ==
    /\ KNNIdle
    /\ RFIdle
    /\ FeatIdle
    /\ CallIdle
    /\ dbPatterns = <<>>
    /\ dbEvents \in TrendEventTables
    /\ dbItems = <<>>
    /\ userPatterns = <<>>
    /\ isModelsTrained = FALSE
    /\ lastTrainingTime = None
    /\ req = [r \in Requests |-> NoRequest]
    /\ trainRuns = 0
    /\ firstModel = <<>>
    /\ processedCount = <<>>

NextTrend ==
    \E r \in Requests :
        \/ Start(r, "predictConsumptionTrend", "")
        \/ \E ok \in BOOLEAN : TrainPatternsFetched(r, ok)
        \/ \E ok \in BOOLEAN : TrainEventsFetched(r, ok)
        \/ \E ok \in BOOLEAN : Fetched(r, ok)

SpecTrend == InitTrend /\ [][NextTrend]_vars

----------------------------------------------------------------------------
(* SpecInv: analyzeInventory and predictItemOutcome, one request, over     *)
(* stores with a history of expired and consumed items.                    *)

ExpiredIds == <<"x1", "x2", "x3", "x4", "x5">>

ConsumedIds == <<"y1", "y2", "y3">>

\* an items row that is no longer active
PastItem(id, status) ==
    [id |-> id, name |-> "Milk", category |-> "Dairy", expiryDate |-> None,
     status |-> status, userId |-> "u1"]

\* the terminal events, then the add events, of the first n ids
Terminals(ids, n, type) ==
    [i \in 1..n |-> Event("u1", ids[i], type, 30, "Milk", "Dairy")]

Adds(ids, n) == [i \in 1..n |-> Event("u1", ids[i], "add", 10, "", "")]

\* item_events of n expired and m consumed Dairy items (newest first; equal
\* dates in either order)
HistoryEvents(n, m, consumedFirst) ==
    (IF consumedFirst
     THEN Terminals(ConsumedIds, m, "consume") \o Terminals(ExpiredIds, n, "expire")
     ELSE Terminals(ExpiredIds, n, "expire") \o Terminals(ConsumedIds, m, "consume"))
    \o Adds(ExpiredIds, n) \o Adds(ConsumedIds, m)

HistoryItems(n, m) ==
    [i \in 1..n |-> PastItem(ExpiredIds[i], "expired")]
    \o [i \in 1..m |-> PastItem(ConsumedIds[i], "consumed")]

\* the active rows of items: a named item with an expiry date, a row without
\* a name, a named item no pattern matches
ActiveTables ==
    {<<>>,
     <<Item("a", "Milk", "Dairy", Some(50))>>,
     <<Item("a", "Milk", "Dairy", Some(50)), Item("b", "", "Meat", None)>>,
     <<Item("b", "", "Meat", None)>>,
     <<Item("a", "Milk", "Dairy", Some(50)), Item("c", "Beef", "Meat", None)>>}

InitInv ==
    /\ KNNIdle
    /\ RFIdle
    /\ FeatIdle
    /\ CallIdle
    /\ dbPatterns \in {<<>>, SubSeq(PatternTable, 1, 1)}
    /\ \E n \in 0..Len(ExpiredIds), m \in 0..Len(ConsumedIds), consumedFirst \in BOOLEAN,
          kept \in BOOLEAN, active \in ActiveTables :
          /\ dbEvents = HistoryEvents(n, m, consumedFirst)
          /\ dbItems = active \o (IF kept THEN HistoryItems(n, m) ELSE <<>>)
    /\ userPatterns = <<>>
    /\ isModelsTrained = FALSE
    /\ lastTrainingTime = None
    /\ req = [r \in Requests |-> NoRequest]
    /\ trainRuns = 0
    /\ firstModel = <<>>
    /\ processedCount = <<>>

NextInv ==
    \E r \in {"r1"} :
        \/ \E op \in {"analyzeInventory", "predictItemOutcome"}, itemId \in {"a", "c", "zz"} :
               Start(r, op, itemId)
        \/ \E ok \in BOOLEAN : TrainPatternsFetched(r, ok)
        \/ \E ok \in BOOLEAN : TrainEventsFetched(r, ok)
        \/ \E ok \in BOOLEAN : Fetched(r, ok)

SpecInv == InitInv /\ [][NextInv]_vars

----------------------------------------------------------------------------
(* SpecPattern: the processConsumption handler                             *)
(* (controllers/analyticsController.ts) over ItemEventService.createEvent  *)
(* and ConsumptionPatternService (models/ConsumptionPattern.ts).  Each     *)
(* pool.execute is one step; the steps of different requests interleave.   *)

\* the unique key of consumption_patterns the upsert relies on: the pair
\* (user_id, item_name), names compared as the store compares them
PatternKey(userId, itemName) == <<userId, Lower(itemName)>>

\* Mutant: a plain INSERT, without the ON DUPLICATE KEY UPDATE clause.
UpdatePatternInsertOnly(rows, pattern) ==
    Append(rows, Row(pattern.user_id, pattern.item_name, pattern.category,
                     pattern.average_consumption_days, 1))

\* updatePattern: INSERT ... VALUES (...) ON DUPLICATE KEY UPDATE
\* average_consumption_days = VALUES(..), consumption_count = consumption_count + 1
UpdatePattern(rows, pattern) ==
    LET avg == IF pattern.average_consumption_days = Some(0)
               THEN None ELSE pattern.average_consumption_days
        count == IF pattern.consumption_count = 0 THEN 1 ELSE pattern.consumption_count
        hits == {i \in 1..Len(rows) :
                    PatternKey(rows[i].user_id, rows[i].item_name)
                    = PatternKey(pattern.user_id, pattern.item_name)}
    IN  IF hits = {}
        THEN Append(rows, Row(pattern.user_id, pattern.item_name, pattern.category,
                              avg, count))
        ELSE LET i == CHOOSE h \in hits : \A g \in hits : h <= g
             IN  [rows EXCEPT ![i] = [@ EXCEPT !.average_consumption_days = avg,
                                               !.consumption_count = @ + 1]]

\* SELECT * FROM item_events WHERE user_id = ? AND item_id = ? ORDER BY event_date DESC
UserItemEvents(events, userId, itemId) ==
    SelectSeq(events, LAMBDA e : e.user_id = userId /\ e.item_id = itemId)

\* processConsumptionEvent: avgDays, the whole days (rounded up) from the most
\* recent add before the newest consume event to that consume event
AvgDays(eventRows) ==
    LET consumeEvents == SelectSeq(eventRows, LAMBDA e : e.event_type = "consume")
    IN  IF Len(eventRows) < 2 \/ consumeEvents = <<>>
        THEN None
        ELSE LET consumeDate == consumeEvents[1].event_date
                 addEvents == SelectSeq(eventRows, LAMBDA e : /\ e.event_type = "add"
                                                               /\ e.event_date < consumeDate)
             IN  IF addEvents = <<>>
                 THEN None
                 ELSE LET addDate == SortByDate(addEvents)[Len(addEvents)].event_date
                      IN  Some((consumeDate - addDate + 1) \div 2)

MaxConsumptions == 3

ConsumeUsers == {"u1", "u2"}

ConsumeItemIds == {"a", "b", "zz"}

\* two cartons of the same product next to each other
ConsumeItems == <<Item("a", "Milk", "Dairy", Some(50)), Item("b", "milk", "Dairy", None)>>

PatternKeys == {PatternKey(u, "milk") : u \in ConsumeUsers}

\* item_events before the requests: u1 added the cartons, u2 added nothing
ConsumeEvents ==
    <<Event("u1", "b", "add", 38, "", ""), Event("u1", "a", "add", 35, "", ""),
      Event("u1", "a", "add", 33, "", "")>>

InitPattern ==
    /\ KNNIdle
    /\ RFIdle
    /\ FeatIdle
    /\ CallIdle
    /\ dbPatterns = <<>>
    /\ dbEvents = ConsumeEvents
    /\ dbItems = ConsumeItems
    /\ userPatterns = <<>>
    /\ isModelsTrained = FALSE
    /\ lastTrainingTime = None
    /\ req = [r \in Requests |-> NoRequest]
    /\ trainRuns = 0
    /\ firstModel = <<>>
    /\ processedCount = [key \in PatternKeys |-> 0]

\* consume events recorded or about to be recorded
ConsumptionsBegun ==
    Len(SelectSeq(dbEvents, LAMBDA e : e.event_type = "consume"))
    + Cardinality({r \in Requests : req[r].pc = "create_event"})

\* processConsumption is called: 400 without both ids, else it runs up to
\* the INSERT of createEvent
ConsumeStart(r, userId, itemId) ==
    /\ req[r].pc = "idle"
    /\ ConsumptionsBegun < MaxConsumptions
    /\ req' = [req EXCEPT ![r] =
                 IF userId = "" \/ itemId = ""
                 THEN [NoRequest EXCEPT !.op = "processConsumption", !.userId = userId,
                                        !.itemId = itemId, !.pc = "done",
                                        !.outcome = "bad-request"]
                 ELSE [NoRequest EXCEPT !.op = "processConsumption", !.userId = userId,
                                        !.itemId = itemId, !.pc = "create_event"]]
    /\ UNCHANGED <<knnVars, rfVars, featVars, callVars, storeVars, userPatterns, isModelsTrained,
                   lastTrainingTime, trainRuns, firstModel, processedCount>>

\* the handler's catch: 500 'Failed to process consumption'
ConsumeFailed(rq, cause) == [rq EXCEPT !.pc = "done", !.outcome = "error", !.cause = cause]

\* createEvent: INSERT INTO item_events returns or throws
EventCreated(r, ok) ==
    /\ req[r].pc = "create_event"
    /\ req' = [req EXCEPT ![r] = IF ok THEN [@ EXCEPT !.pc = "item"]
                                 ELSE ConsumeFailed(@, "store")]
    /\ dbEvents' = IF ok
                   THEN <<Event(req[r].userId, req[r].itemId, "consume", Now, "", "")>>
                        \o dbEvents
                   ELSE dbEvents
    /\ UNCHANGED <<knnVars, rfVars, featVars, callVars, dbPatterns, dbItems, userPatterns,
                   isModelsTrained, lastTrainingTime, trainRuns, firstModel,
                   processedCount>>

\* processConsumptionEvent: SELECT id, name, category FROM items WHERE id = ?
\* returns or throws; no row is the Error 'Item with ID ... not found'
ConsumeItemFetched(r, ok) ==
    /\ req[r].pc = "item"
    /\ LET itemRows == ItemRows(dbItems, req[r].itemId)
       IN  req' = [req EXCEPT ![r] =
                     IF ~ok THEN ConsumeFailed(@, "store")
                     ELSE IF Len(itemRows) = 0 THEN ConsumeFailed(@, "not-found")
                     ELSE [@ EXCEPT !.pc = "events", !.result = <<itemRows[1]>>]]
    /\ UNCHANGED <<knnVars, rfVars, featVars, callVars, storeVars, userPatterns, isModelsTrained,
                   lastTrainingTime, trainRuns, firstModel, processedCount>>

\* processConsumptionEvent: the item_events query returns or throws; the
\* pattern to store is computed and the upsert is issued
ConsumeEventsFetched(r, ok) ==
    /\ req[r].pc = "events"
    /\ LET item == req[r].result[1]
           eventRows == UserItemEvents(dbEvents, req[r].userId, req[r].itemId)
       IN  req' = [req EXCEPT ![r] =
                     IF ~ok THEN ConsumeFailed(@, "store")
                     ELSE [@ EXCEPT !.pc = "upsert",
                                    !.result = <<Row(req[r].userId, item.name, item.category,
                                                     AvgDays(eventRows), 1)>>]]
    /\ UNCHANGED <<knnVars, rfVars, featVars, callVars, storeVars, userPatterns, isModelsTrained,
                   lastTrainingTime, trainRuns, firstModel, processedCount>>

\* updatePattern: the upsert executes as one statement, or throws
PatternUpdated(r, ok) ==
    /\ req[r].pc = "upsert"
    /\ LET pattern == req[r].result[1]
           key == PatternKey(pattern.user_id, pattern.item_name)
       IN  /\ dbPatterns' = IF ok THEN UpdatePattern(dbPatterns, pattern) ELSE dbPatterns
           /\ processedCount' = IF ok THEN [processedCount EXCEPT ![key] = @ + 1]
                                ELSE processedCount
           /\ req' = [req EXCEPT ![r] = IF ok THEN [@ EXCEPT !.pc = "done", !.outcome = "ok"]
                                        ELSE ConsumeFailed(@, "store")]
    /\ UNCHANGED <<knnVars, rfVars, featVars, callVars, dbEvents, dbItems, userPatterns,
                   isModelsTrained, lastTrainingTime, trainRuns, firstModel>>

\* the response has been sent; the client may call again
ConsumeReturned(r) ==
    /\ req[r].pc = "done"
    /\ req[r].op = "processConsumption"
    /\ req' = [req EXCEPT ![r] = NoRequest]
    /\ UNCHANGED <<knnVars, rfVars, featVars, callVars, storeVars, userPatterns, isModelsTrained,
                   lastTrainingTime, trainRuns, firstModel, processedCount>>

NextPattern ==
    \E r \in Requests :
        \/ \E userId \in ConsumeUsers \cup {""}, itemId \in ConsumeItemIds :
               ConsumeStart(r, userId, itemId)
        \/ \E ok \in BOOLEAN : EventCreated(r, ok)
        \/ \E ok \in BOOLEAN : ConsumeItemFetched(r, ok)
        \/ \E ok \in BOOLEAN : ConsumeEventsFetched(r, ok)
        \/ \E ok \in BOOLEAN : PatternUpdated(r, ok)
        \/ ConsumeReturned(r)

SpecPattern == InitPattern /\ [][NextPattern]_vars

----------------------------------------------------------------------------
(* SpecClean: cleanFeatureArray applied to feature arrays in which up to   *)
(* two slots hold null, NaN or Infinity.                                   *)

\* a feature array as featuresToArray returns it, every slot finite
FullVector ==
    <<Num(4), Num(6), Num(2), Num(0), Num(3), Num(6), Num(0), Num(12), Num(5), Num(3),
      Num(7)>>

\* the array with the slots `bad` (indices from 0) holding `value`
Damaged(bad, value) ==
    [i \in 1..Len(FullVector) |-> IF i - 1 \in bad THEN value ELSE FullVector[i]]

InitClean ==
    /\ KNNIdle
    /\ RFIdle
    /\ FeatIdle
    /\ SvcIdle
    /\ \E bad \in {b \in SUBSET (0..10) : Cardinality(b) <= 2}, value \in {NullV, NaNV, InfV} :
           callArgs = [fn |-> "cleanFeatureArray", features |-> Damaged(bad, value)]
    /\ callResult = <<>>

CleanFeatureArrayCall ==
    /\ callArgs.fn = "cleanFeatureArray"
    /\ callResult = <<>>
    /\ callResult' = CleanFeatureArray(callArgs.features)
    /\ UNCHANGED <<callArgs, knnVars, rfVars, featVars, svcVars>>

NextClean == CleanFeatureArrayCall

SpecClean == InitClean /\ [][NextClean]_vars

----------------------------------------------------------------------------
(* SpecPrepare: prepareTrainingData over one consumption_patterns row, for *)
(* every value Math.random() * 10 can round down to.                       *)

\* rows with no, a short, a medium and a very long average cycle, consumed
\* rarely (3, 5) or often (6)
PreparePatternRows ==
    {[user_id |-> "u1", category |-> "Dairy", average_consumption_days |-> a,
      consumption_count |-> n] :
        a \in {NullV, Num(4), Num(10), Num(200)}, n \in {Num(3), Num(5), Num(6)}}

InitPrepare ==
    /\ KNNIdle
    /\ RFIdle
    /\ FeatIdle
    /\ SvcIdle
    /\ \E row \in PreparePatternRows, r \in 0..9 :
           callArgs = [fn |-> "prepareTrainingData", patterns |-> <<row>>, r |-> r]
    /\ callResult = <<>>

PrepareTrainingDataCall ==
    /\ callArgs.fn = "prepareTrainingData"
    /\ callResult = <<>>
    /\ callResult' = PrepareTrainingData(callArgs.patterns, {}, <<>>, callArgs.r).data
    /\ UNCHANGED <<callArgs, knnVars, rfVars, featVars, svcVars>>

NextPrepare == PrepareTrainingDataCall

SpecPrepare == InitPrepare /\ [][NextPrepare]_vars

----------------------------------------------------------------------------
(* SpecValidate: validateTrainingData applied to one training example      *)
(* whose targets are arbitrary numbers, NaN, Infinity or null.             *)

ValidateDays ==
    {NullV, NaNV, InfV, Num(-5), Num(0), Num(3), Num(7), Num(8), Num(100), Num(365),
     Num(400)}

ValidateClasses == {NullV, NaNV, Num(0), Num(1), Num(2)}

InitValidate ==
    /\ KNNIdle
    /\ RFIdle
    /\ FeatIdle
    /\ SvcIdle
    /\ \E f \in {FullVector, Damaged({1}, InfV)}, d \in ValidateDays, c \in ValidateClasses :
           callArgs = [fn |-> "validateTrainingData",
                       data |-> <<[features |-> f, days_target |-> d,
                                   classification_target |-> c]>>]
    /\ callResult = <<>>

\* the result is kept in a record: the empty array is a possible result
ValidateTrainingDataCall ==
    /\ callArgs.fn = "validateTrainingData"
    /\ callResult = <<>>
    /\ callResult' = [data |-> ValidateTrainingData(callArgs.data)]
    /\ UNCHANGED <<callArgs, knnVars, rfVars, featVars, svcVars>>

NextValidate == ValidateTrainingDataCall

SpecValidate == InitValidate /\ [][NextValidate]_vars

----------------------------------------------------------------------------
(* SpecLifecycle: preprocessConsumptionData applied to event arrays of up  *)
(* to three events of two items, in any array order.                       *)

MaxEvents == 3

\* half-day instants: 10 and 11 fall on one day, 13 on the next
LifecycleEvents ==
    {Event("u1", id, type, date, "", "") :
        id \in {"a", "b"}, type \in {"add", "consume", "expire"}, date \in {10, 11, 13}}

InitLifecycle ==
    /\ KNNIdle
    /\ RFIdle
    /\ FeatIdle
    /\ SvcIdle
    /\ \E events \in SeqsUpTo(LifecycleEvents, MaxEvents) :
           callArgs = [fn |-> "preprocessConsumptionData", consumptionPatterns |-> <<>>,
                       itemEvents |-> events]
    /\ callResult = <<>>

\* the result is kept in a record: the empty dataset is a possible result
PreprocessConsumptionDataCall ==
    /\ callArgs.fn = "preprocessConsumptionData"
    /\ callResult = <<>>
    /\ callResult' = [data |-> PreprocessConsumptionData(callArgs.consumptionPatterns,
                                                         callArgs.itemEvents)]
    /\ UNCHANGED <<callArgs, knnVars, rfVars, featVars, svcVars>>

NextLifecycle == PreprocessConsumptionDataCall

SpecLifecycle == InitLifecycle /\ [][NextLifecycle]_vars

----------------------------------------------------------------------------
(* SpecEncoder: one RandomForestConsumptionPredictor whose category        *)
(* encoder is filled by prepareTrainingData and by extractFeatures calls,  *)
(* in any order.                                                           *)

EncoderCategories == {"Dairy", "dairy", "Meat", "Produce"}

EncoderRow(category) ==
    [user_id |-> "u1", category |-> category, average_consumption_days |-> Num(10),
     consumption_count |-> Num(6)]

InitEncoder ==
    /\ KNNIdle
    /\ RFIdle
    /\ FeatIdle
    /\ SvcIdle
    /\ CallIdle

\* prepareTrainingData over the rows of `table`: the codes are those of the
\* first example of each row
EncoderPrepareCall(table) ==
    /\ \E prep \in {PrepareTrainingData(table, {}, categoryEncoder, 0)} :
           /\ categoryEncoder' = prep.encoder
           /\ callResult' = [i \in 1..Len(table) |-> prep.data[16 * (i - 1) + 1].features[4]]
    /\ callArgs' = [fn |-> "prepareTrainingData",
                    categories |-> [i \in 1..Len(table) |-> table[i].category]]
    /\ UNCHANGED <<knnVars, rfPool, regressionModel, classificationModel, rfRuns, rfLast,
                   featVars, svcVars>>

\* a prediction: extractFeatures for a pattern of `category`
EncoderExtractCall(category) ==
    /\ \E res \in {ExtractFeatures(TRUE, [NoPattern EXCEPT !.category = category],
                                   [time |-> Now, month |-> 1], FALSE, NoInventoryItem,
                                   [total_items |-> Num(1), avg_frequency |-> Num(30)],
                                   categoryEncoder)} :
           /\ categoryEncoder' = res.encoder
           /\ callResult' = <<res.vector[4]>>
    /\ callArgs' = [fn |-> "extractFeatures", categories |-> <<category>>]
    /\ UNCHANGED <<knnVars, rfPool, regressionModel, classificationModel, rfRuns, rfLast,
                   featVars, svcVars>>

NextEncoder ==
    \/ \E table \in SeqsUpTo({EncoderRow(c) : c \in EncoderCategories}, 2) \ {<<>>} :
           EncoderPrepareCall(table)
    \/ \E category \in EncoderCategories : EncoderExtractCall(category)

SpecEncoder == InitEncoder /\ [][NextEncoder]_vars

----------------------------------------------------------------------------
(* SpecRisk: the risk score and level analyzeInventory gives an item, for  *)
(* every KNN confidence and category waste risk on the tenths of [0, 1].   *)

Tenths == {Reduce(<<n, 10>>) : n \in 0..10}

InitRisk ==
    /\ KNNIdle
    /\ RFIdle
    /\ FeatIdle
    /\ SvcIdle
    /\ \E outcome \in Outcomes, confidence \in Tenths, categoryRisk \in Tenths :
           callArgs = [fn |-> "riskScore",
                       prediction |-> [prediction |-> outcome, confidence |-> confidence],
                       categoryRisk |-> categoryRisk]
    /\ callResult = <<>>

RiskScoreCall ==
    /\ callArgs.fn = "riskScore"
    /\ callResult = <<>>
    /\ \E riskScore \in {RiskScore(callArgs.prediction, callArgs.categoryRisk)} :
           callResult' = [risk_score |-> riskScore, risk_level |-> RiskLevel(riskScore, 7, 4)]
    /\ UNCHANGED <<callArgs, knnVars, rfVars, featVars, svcVars>>

NextRisk == RiskScoreCall

SpecRisk == InitRisk /\ [][NextRisk]_vars

----------------------------------------------------------------------------
(* compareMLModels (the analytics controller): the comparison report over  *)
(* the ensemble's predictions and the items of the KNN inventory analysis  *)

\* comparisons[i].  found is what Array.prototype.find returned: <<item>>, or
\* <<>> for undefined; it never returns null, so `knnItem !== null` holds
\* either way
Comparison(rfPred, items) ==
    LET found == Take(SelectSeq(items, LAMBDA item : item.id = rfPred.item_id), 1)
        isNull == FALSE
    IN  [item_id |-> rfPred.item_id,
         has_historical_data |-> rfPred.days_until_consumption # None,
         knn |-> IF found # <<>> THEN <<found[1].prediction>> ELSE <<>>,
         both_have_predictions |-> rfPred.days_until_consumption # None /\ ~isNull,
         models_agree |-> rfPred.will_consume_within_7_days
                          = (found # <<>> /\ found[1].prediction.outcome = "consume")]

\* the report: the counts and the agreement rate, a fraction
CompareMLModels(rfPredictions, items) ==
    LET comparisons == [i \in 1..Len(rfPredictions) |-> Comparison(rfPredictions[i], items)]
        both == Len(SelectSeq(comparisons, LAMBDA c : c.both_have_predictions))
        agreementCount == Len(SelectSeq(comparisons, LAMBDA c : c.models_agree))
    IN  [total_items |-> Len(comparisons),
         items_with_both_predictions |-> both,
         model_agreement_rate |-> IF both > 0 THEN <<agreementCount, both>> ELSE <<0, 1>>,
         comparisons |-> comparisons]

\* SpecCompare: compareMLModels over the ensemble's predictions for the items
\* a and b and a KNN analysis that holds some of them.

\* an item without a consumption pattern has no days estimate and is never
\* predicted to be consumed within the week
ComparePredictions(id) ==
    {[item_id |-> id, days_until_consumption |-> d, will_consume_within_7_days |-> w] :
        d \in {None, Some(5)}, w \in BOOLEAN} \ 
    {[item_id |-> id, days_until_consumption |-> None, will_consume_within_7_days |-> TRUE]}

CompareAnalyses(id) ==
    {<<>>} \cup {<<[id |-> id, prediction |-> [outcome |-> o]]>> : o \in {"consume", "expire"}}

InitCompare ==
    /\ KNNIdle
    /\ RFIdle
    /\ FeatIdle
    /\ SvcIdle
    /\ \E pa \in ComparePredictions("a"), pb \in ComparePredictions("b"),
          n \in 0..2, ka \in CompareAnalyses("a"), kb \in CompareAnalyses("b") :
           callArgs = [fn |-> "compareMLModels",
                       rfPredictions |-> SubSeq(<<pa, pb>>, 1, n),
                       items |-> ka \o kb]
    /\ callResult = <<>>

CompareMLModelsCall ==
    /\ callArgs.fn = "compareMLModels"
    /\ callResult = <<>>
    /\ callResult' = CompareMLModels(callArgs.rfPredictions, callArgs.items)
    /\ UNCHANGED <<callArgs, knnVars, rfVars, featVars, svcVars>>

NextCompare == CompareMLModelsCall

SpecCompare == InitCompare /\ [][NextCompare]_vars

----------------------------------------------------------------------------
(* Properties of KNNExpirationPredictor.predict (SpecKNN)                  *)

KNNAnswered == knnResult # NoResult

SameCategoryIdx == {i \in 1..Len(trainingData) : trainingData[i].category = knnItem.category}

\* The candidates of a prediction: the same-category examples when there
\* is one, the whole training set otherwise (indices into trainingData).
CandidateIdx == IF SameCategoryIdx # {} THEN SameCategoryIdx ELSE 1..Len(trainingData)

\* i is taken before j: smaller distance, or equal distance and earlier.
Before(i, j) ==
    LET di == KNNDistance2(trainingData[i], knnItem)
        dj == KNNDistance2(trainingData[j], knnItem)
    IN  di < dj \/ (di = dj /\ i < j)

\* The min(k, #candidates) nearest candidates, ties in encounter order.
SelectedIdx == {i \in CandidateIdx : Cardinality({j \in CandidateIdx : Before(j, i)}) < k}

Votes(o) == Cardinality({i \in 1..Len(knnNeighbors) : knnNeighbors[i].outcome = o})

\* C5: predict votes only over training examples of the query's category
\* whenever at least one exists, even when fewer than k exist; only when none
\* exists are the neighbours drawn from the entire training set.
C5_CategoryRestricted ==
    (KNNAnswered /\ trainingData # <<>>) =>
        /\ SameCategoryIdx # {} =>
              /\ \A i \in 1..Len(knnNeighbors) : knnNeighbors[i].category = knnItem.category
              /\ Len(knnNeighbors) = Min(k, Cardinality(SameCategoryIdx))
        /\ SameCategoryIdx = {} =>
              Len(knnNeighbors) = Min(k, Len(trainingData))
        /\ \A o \in Outcomes :
              Votes(o) = Cardinality({i \in SelectedIdx : trainingData[i].outcome = o})
        /\ Votes(knnResult.prediction) > 0

C5_Witness ==
    /\ KNNAnswered
    /\ SameCategoryIdx # {}
    /\ Cardinality(SameCategoryIdx) < k
    /\ Len(trainingData) >= k
    /\ Len(knnNeighbors) < k

\* C6: confidence = (selected neighbours carrying the winning label) / k, so
\* it is one of 0, 1/k, ..., 1, also with fewer than k neighbours; the winning
\* label has the maximum vote count among the selected neighbours.
C6_ConfidenceIsVotesOverK ==
    KNNAnswered =>
        /\ RatEq(knnResult.confidence, <<Votes(knnResult.prediction), k>>)
        /\ \E n \in 0..k : RatEq(knnResult.confidence, <<n, k>>)
        /\ RatLeq(<<0, 1>>, knnResult.confidence)
        /\ RatLeq(knnResult.confidence, <<1, 1>>)
        /\ \A o \in Outcomes : Votes(o) <= Votes(knnResult.prediction)

C6_Witness ==
    /\ KNNAnswered
    /\ Len(knnNeighbors) > 1
    /\ Len(knnNeighbors) < k
    /\ Votes(knnResult.prediction) < Len(knnNeighbors)

\* C7: days = mean of actual_lifespan_days over the selected neighbours,
\* rounded to the nearest integer (halves up, as Math.round does); the selected
\* neighbours are the min(k, #candidates) candidates nearest to the query,
\* equal distances in training-set order.
SelectedTotal ==
    LET RECURSIVE Total(_)
        Total(S) == IF S = {} THEN 0
                    ELSE LET i == CHOOSE x \in S : TRUE
                         IN  trainingData[i].actual_lifespan_days + Total(S \ {i})
    IN  Total(SelectedIdx)

C7_DaysIsRoundedMean ==
    (KNNAnswered /\ trainingData # <<>>) =>
        LET n == Cardinality(SelectedIdx)
        IN  /\ n = Min(k, Cardinality(CandidateIdx))
            /\ n = Len(knnNeighbors)
            /\ 2 * n * knnResult.days <= 2 * SelectedTotal + n
            /\ 2 * SelectedTotal + n < 2 * n * knnResult.days + 2 * n

C7_Witness ==
    /\ KNNAnswered
    /\ Cardinality(CandidateIdx) > k
    /\ \E i \in SelectedIdx : \E j \in CandidateIdx \ SelectedIdx :
           /\ KNNDistance2(trainingData[i], knnItem) = KNNDistance2(trainingData[j], knnItem)
           /\ trainingData[i].actual_lifespan_days # trainingData[j].actual_lifespan_days
    /\ SelectedTotal % Cardinality(SelectedIdx) # 0

\* C8: with an empty training set predict returns exactly
\* {prediction: 'consume', confidence: 0, days: 30} for every query.
C8_EmptyTrainingDefault ==
    (KNNAnswered /\ trainingData = <<>>) =>
        /\ knnResult.prediction = "consume"
        /\ RatEq(knnResult.confidence, <<0, 1>>)
        /\ knnResult.days = 30

C8_Witness == KNNAnswered /\ trainingData = <<>> /\ knnItem.category = "Fish"

----------------------------------------------------------------------------
(* Properties of RandomForestConsumptionPredictor.train (SpecRF)           *)

TrainFailed == rfLast.outcome \in {"query-failed", "insufficient-data", "fit-failed"}

\* C2 (ensemble part): a train() run that fails at any step leaves
\* regressionModel and classificationModel as they were before the run.
C2_FailedTrainKeepsModels == TrainFailed => rfLast.kept

\* C10 as claimed: a raw set with fewer than 10 all-finite examples is
\* rejected with the insufficient-data error and neither model is fitted.
C10_RejectsFewFiniteExamples ==
    (rfLast.outcome \notin {"none", "query-failed", "fit-failed"}
        /\ rfLast.finiteCount < MinExamples) =>
        /\ rfLast.outcome = "insufficient-data"
        /\ rfLast.kept

\* C10 amended: cleaning repairs every example and discards none, so train
\* raises the insufficient-data error, fitting neither model, exactly when
\* the raw set itself has fewer than 10 examples.
C10_RejectsFewExamples ==
    (rfLast.outcome \notin {"none", "query-failed"}) =>
        /\ rfLast.cleanCount = rfLast.rawCount
        /\ rfLast.rawCount < MinExamples =>
              /\ rfLast.outcome = "insufficient-data"
              /\ rfLast.kept
        /\ rfLast.rawCount >= MinExamples => rfLast.outcome # "insufficient-data"

C10_Witness ==
    /\ rfLast.outcome = "insufficient-data"
    /\ rfLast.rawCount < MinExamples
    /\ Len(rfPool) > 0
    /\ rfLast.hadModels
    /\ regressionModel.fitted /\ classificationModel.fitted

----------------------------------------------------------------------------
(* Properties of extractFeatures (SpecFeat)                                *)

\* the value a field of the pattern / item has for the caller (missing when
\* the whole object is null)
PatternValue(field) == IF featIn.hasPattern THEN featIn.pattern[field] ELSE NullV

ItemValue(field) == IF featIn.hasItem THEN featIn.item[field] ELSE NullV

\* C9: feature extraction is total: whatever is null or missing, it returns
\* without throwing a vector of exactly 11 finite numbers in which every
\* missing field holds its documented default (average_consumption_days 30,
\* consumption_count 1, days_since_last_consumed 999, days_until_expiry 365,
\* item_age_days 0, user_avg_consumption_frequency 30).
C9_ExtractionTotalWithDefaults ==
    featIn.called =>
        /\ ~featOut.threw
        /\ Len(featOut.vector) = 11
        /\ \A i \in 1..Len(featOut.vector) : IsFiniteNumber(featOut.vector[i])
        /\ PatternValue("average_consumption_days") = NullV => featOut.vector[1] = Num(30)
        /\ PatternValue("consumption_count") = NullV => featOut.vector[2] = Num(1)
        /\ PatternValue("last_consumed") = NullV => featOut.vector[3] = Num(999)
        /\ ItemValue("expiryDate") = NullV => featOut.vector[8] = Num(365)
        /\ ItemValue("created_at") = NullV => featOut.vector[9] = Num(0)
        /\ featIn.userStats.avg_frequency = NullV => featOut.vector[11] = Num(30)

----------------------------------------------------------------------------
(* Properties of MLService (Spec)                                          *)

Finished(r) == req[r].pc = "done"

TrainedOk(r) == req[r].op = "trainModels" /\ Finished(r) /\ req[r].outcome = "ok"

\* r is a trainModels call made after one successful run, with no other
\* request in flight, that has itself completed successfully
SecondTrainCall(r) == TrainedOk(r) /\ req[r].startRuns = 1 /\ ~req[r].startBusy

ForecastQueries == {"u1", "u2"} \X {"", "Dairy", "Meat"}

\* C1: two trainModels calls in succession over unchanged data leave the
\* model state of the first call: the same KNN training set and the same
\* per-user, per-category pattern lists, hence the same answers of KNN
\* predict and of predictNextConsumption.
C1_RetrainIsIdempotent ==
    \A r \in Requests :
        (SecondTrainCall(r) /\ \A q \in Requests \ {r} : TrainedOk(q)) =>
            /\ trainingData = firstModel[1]
            /\ userPatterns = firstModel[2]
            /\ \A item \in KNNQueries :
                   KNNPredict(trainingData, k, item) = KNNPredict(firstModel[1], k, item)
            /\ \A fq \in ForecastQueries :
                   PredictNextConsumption(userPatterns, fq[1], fq[2])
                       = PredictNextConsumption(firstModel[2], fq[1], fq[2])

\* r has begun the work of its operation proper: its own first query is
\* issued, or it has answered
BegunOwnWork(r) ==
    \/ req[r].pc = "fetch"
    \/ Finished(r) /\ req[r].outcome = "ok"

\* C3: a prediction operation does nothing of its own before the is-trained
\* flag is set, by an earlier run or by the trainModels it awaited, and every
\* query it makes to the KNN classifier or the category forecaster comes after
\* at least one successful trainModels run.
C3_TrainedBeforeModelQuery ==
    \A r \in Requests :
        req[r].op \in PredictionOps =>
            /\ BegunOwnWork(r) => isModelsTrained /\ trainRuns >= 1
            /\ req[r].lazy /\ BegunOwnWork(r) => trainRuns > req[r].startRuns
            /\ req[r].sawRuns # -1 => req[r].sawRuns >= 1

\* a request that found the flag false, trained, and then queried a model
C3_Witness ==
    \E r \in Requests :
        /\ req[r].lazy
        /\ Finished(r)
        /\ req[r].outcome = "ok"
        /\ req[r].sawRuns >= 1

\* C4: when two requests both observe isModelsTrained = false and both run
\* trainModels to completion, the final model state is the one a single
\* trainModels run over the same store produces.
C4_RedundantRetrainIsIdempotent ==
    ((\A r \in Requests : req[r].lazy) /\ trainRuns = Cardinality(Requests)) =>
        /\ trainingData = PreprocessConsumptionData(dbPatterns, dbEvents)
        /\ userPatterns = ConsumptionTrain(<<>>, dbPatterns)

----------------------------------------------------------------------------
(* Properties of predictConsumptionTrend (SpecTrend, Spec)                 *)

TrendAnswered(r) ==
    req[r].op = "predictConsumptionTrend" /\ Finished(r) /\ req[r].outcome = "ok"

\* 49 times (MA7 + i * (MA7 - MA0) / 7) for the history h.  Twice this number
\* is even and 49 is odd, so the forecast never sits on a rounding boundary
\* and double arithmetic rounds as the fraction does.
TrendNumerator(h, i) ==
    7 * SumSeq(SubSeq(h, 8, 14)) + i * (SumSeq(SubSeq(h, 8, 14)) - SumSeq(SubSeq(h, 1, 7)))

\* v = max(0, round(num / 49))
IsClampedRound(v, num) ==
    /\ v \in Nat
    /\ 2 * num < 98 * v + 49
    /\ v > 0 => 98 * v - 49 <= 2 * num

\* C11: a successful predictConsumptionTrend returns exactly 7 values, the
\* i-th being max(0, round(MA7 + i * (MA7 - MA0) / 7)) over the 8 moving
\* averages of the 14-day history; all are non-negative integers, and an
\* all-zero history gives seven zeros with confidence 0.6.
C11_ForecastFromMovingAverages ==
    \A r \in Requests :
        TrendAnswered(r) =>
            LET h == req[r].result[1].historical
                v == req[r].result[1].values
            IN  /\ Len(h) = 14
                /\ Len(v) = 7
                /\ \A i \in 1..7 : IsClampedRound(v[i], TrendNumerator(h, i))
                /\ (\A j \in 1..14 : h[j] = 0) =>
                       /\ v = <<0, 0, 0, 0, 0, 0, 0>>
                       /\ RatEq(req[r].result[1].confidence, <<6, 10>>)

\* a forecast that rises over the week, so the trend term shows
C11_Witness ==
    \E r \in Requests :
        /\ TrendAnswered(r)
        /\ req[r].result[1].values[1] >= 1
        /\ req[r].result[1].values[7] > req[r].result[1].values[1]

\* the consume events of the user dated on the i-th day of the history
EventsOnDay(userId, i) ==
    {m \in 1..Len(dbEvents) :
        /\ dbEvents[m].user_id = userId
        /\ dbEvents[m].event_type = "consume"
        /\ dbEvents[m].event_date \div 2 = (Now \div 2) - 14 + i}

\* C12: each of the 14 history values equals the number of the user's
\* consume events dated on that calendar day, however many consume events
\* the user has in the last 30 days.
C12_HistoryCountsEveryEvent ==
    \A r \in Requests :
        TrendAnswered(r) =>
            \A i \in 1..14 :
                req[r].result[1].historical[i] = Cardinality(EventsOnDay(req[r].userId, i))

\* C13: predictConsumptionTrend never ends in an error: whenever its lazy
\* training or one of its queries fails it answers with seven zero forecast
\* values and the error flag.
C13_TrendNeverThrows ==
    \A r \in Requests :
        (req[r].op = "predictConsumptionTrend" /\ Finished(r)) =>
            /\ req[r].outcome \in {"ok", "fallback"}
            /\ Len(req[r].result) = 1
            /\ Len(req[r].result[1].values) = 7
            /\ req[r].cause # "" =>
                   /\ req[r].outcome = "fallback"
                   /\ \A i \in 1..7 : req[r].result[1].values[i] = 0
                   /\ req[r].result[1].error

\* a trend request whose lazy training failed on a store query
C13_Witness ==
    \E r \in Requests :
        /\ req[r].op = "predictConsumptionTrend"
        /\ Finished(r)
        /\ req[r].lazy
        /\ req[r].cause = "store"
        /\ trainRuns = 0

----------------------------------------------------------------------------
(* Properties of the category forecaster (Spec)                            *)

\* the stored pattern rows of a user and category
StoredRows(userId, category) ==
    SelectSeq(dbPatterns, LAMBDA q : q.user_id = userId /\ q.category = category)

\* the prediction made from the stored row q
PredictsRow(pred, q) ==
    /\ pred.item_name = q.item_name
    /\ pred.category = q.category
    /\ pred.days_until_next = (IF q.average_consumption_days = None THEN 30
                               ELSE q.average_consumption_days[1])
    /\ RatEq(pred.confidence,
             IF q.consumption_count >= 9 THEN <<9, 10>> ELSE <<q.consumption_count, 10>>)

\* preds are the (at most 3) rows of largest consumption_count, largest
\* first, each stored row predicted at most once
TopThreeOf(preds, rows) ==
    /\ Len(preds) = (IF Len(rows) < 3 THEN Len(rows) ELSE 3)
    /\ \E pick \in [1..Len(preds) -> 1..Len(rows)] :
          /\ \A i, j \in 1..Len(preds) : i # j => pick[i] # pick[j]
          /\ \A i \in 1..Len(preds) : PredictsRow(preds[i], rows[pick[i]])
          /\ \A i, j \in 1..Len(preds) :
                 i < j => rows[pick[i]].consumption_count >= rows[pick[j]].consumption_count
          /\ \A i \in 1..Len(preds), n \in 1..Len(rows) :
                 (\A j \in 1..Len(preds) : pick[j] # n) =>
                     rows[pick[i]].consumption_count >= rows[n].consumption_count

CategoryAnswered(r) ==
    req[r].op = "predictConsumptionByCategory" /\ Finished(r) /\ req[r].outcome = "ok"

\* C14: after any sequence of training runs the per-category answer of
\* predictNextConsumption holds at most 3 predictions, one per stored pattern
\* row, for the rows of largest consumption_count in non-increasing order,
\* with days_until_next = average_consumption_days (30 when missing) and
\* confidence = min(consumption_count / 10, 0.9).
C14_TopThreeOnePerRow ==
    \A r \in Requests :
        CategoryAnswered(r) =>
            \A c \in 1..Len(req[r].result[1].by_category) :
                TopThreeOf(req[r].result[1].by_category[c].result.predictions,
                           StoredRows(req[r].userId, req[r].result[1].by_category[c].category))

----------------------------------------------------------------------------
(* Properties of analyzeInventory and predictItemOutcome (SpecInv)         *)

InventoryAnswered(r) ==
    req[r].op = "analyzeInventory" /\ Finished(r) /\ req[r].outcome = "ok"

\* the events of the given type joined to the user's items of a category
JoinedEvents(userId, category, type) ==
    {<<n, m>> \in (1..Len(dbItems)) \X (1..Len(dbEvents)) :
        /\ dbItems[n].userId = userId
        /\ dbItems[n].category = category
        /\ dbEvents[m].item_id = dbItems[n].id
        /\ dbEvents[m].event_type = type}

\* score = (wc * conf + wr * expired / (expired + consumed)) / 10, where the
\* category term is 0 when the category has no such events
ScoreIs(score, wc, conf, wr, expired, consumed) ==
    IF expired + consumed = 0
    THEN score[1] * 10 * conf[2] = score[2] * wc * conf[1]
    ELSE score[1] * 10 * conf[2] * (expired + consumed)
             = score[2] * (wc * conf[1] * (expired + consumed) + wr * expired * conf[2])

LevelIs(level, score) ==
    /\ level = "high" <=> 10 * score[1] > 7 * score[2]
    /\ level = "medium" <=> (10 * score[1] > 4 * score[2] /\ 10 * score[1] <= 7 * score[2])
    /\ level \in {"high", "medium", "low"}

\* C15: every analysed item has risk_score = 0.7*confidence + 0.3*categoryRisk
\* when the KNN outcome is 'expire' and 0.3*categoryRisk - 0.1*confidence
\* otherwise; risk_level is 'high' exactly above 0.7, 'medium' exactly in
\* (0.4, 0.7], else 'low'; 'expire' with confidence 0.9 and category risk 0.5
\* scores 0.78 and is 'high'.
C15_RiskScoreAndLevel ==
    /\ \A r \in Requests :
          InventoryAnswered(r) =>
              \A i \in 1..Len(req[r].result[1].items) :
                  LET a        == req[r].result[1].items[i]
                      expired  == Cardinality(JoinedEvents(req[r].userId, a.category, "expire"))
                      consumed == Cardinality(JoinedEvents(req[r].userId, a.category, "consume"))
                  IN  /\ a.risk_score[2] > 0
                      /\ IF a.prediction.prediction = "expire"
                         THEN ScoreIs(a.risk_score, 7, a.prediction.confidence, 3,
                                      expired, consumed)
                         ELSE ScoreIs(a.risk_score, -1, a.prediction.confidence, 3,
                                      expired, consumed)
                      /\ LevelIs(a.risk_level, a.risk_score)
    /\ RatEq(RiskScore([prediction |-> "expire", confidence |-> <<9, 10>>], <<1, 2>>),
             <<78, 100>>)
    /\ RiskLevel(RiskScore([prediction |-> "expire", confidence |-> <<9, 10>>], <<1, 2>>),
                 7, 4) = "high"

\* an item predicted to expire with confidence below 1 and scored above 0.7
C15_Witness ==
    \E r \in Requests :
        /\ InventoryAnswered(r)
        /\ \E i \in 1..Len(req[r].result[1].items) :
              /\ req[r].result[1].items[i].prediction.prediction = "expire"
              /\ req[r].result[1].items[i].risk_level = "high"
              /\ req[r].result[1].items[i].prediction.confidence[1] < 5

\* the active items of the user, which analyzeInventory fetched
FetchedItems(r) ==
    SelectSeq(dbItems, LAMBDA it : it.userId = req[r].userId /\ it.status = "active")

\* C16: every active item that analyzeInventory fetched is in the returned
\* items list or counted in the returned summary, also when analysing it
\* raised an error.
C16_NoItemSilentlyDropped ==
    \A r \in Requests :
        InventoryAnswered(r) =>
            \/ \A n \in 1..Len(FetchedItems(r)) :
                   \E i \in 1..Len(req[r].result[1].items) :
                       req[r].result[1].items[i].id = FetchedItems(r)[n].id
            \/ req[r].result[1].summary.total_items = Len(FetchedItems(r))

\* the sum of the risk scores of a list of analyses, in lowest terms
RECURSIVE SumOfScores(_)
SumOfScores(items) ==
    IF items = <<>> THEN <<0, 1>>
    ELSE LET rest == SumOfScores(Tail(items))
         IN  Reduce(<<items[1].risk_score[1] * rest[2] + rest[1] * items[1].risk_score[2],
                      items[1].risk_score[2] * rest[2]>>)

\* C17: summary.waste_risk is the arithmetic mean of risk_score over the
\* returned items, and 0 when the returned list is empty.
C17_WasteRiskIsMean ==
    \A r \in Requests :
        InventoryAnswered(r) =>
            LET items == req[r].result[1].items
                risk  == req[r].result[1].summary.waste_risk
                total == SumOfScores(items)
            IN  /\ risk[2] # 0
                /\ IF items = <<>> THEN risk[1] = 0
                   ELSE Reduce(risk) = Reduce(<<total[1], total[2] * Len(items)>>)

\* C18 (orchestrator part): a missing entity is answered, never raised as an
\* error: predictItemOutcome for an item id without a stored row, and
\* predictItemOutcome / analyzeInventory for an item without a matching
\* consumption pattern, end with an answer unless a store query failed.
C18_MissingEntityIsAnswered ==
    \A r \in Requests :
        (/\ req[r].op \in {"predictItemOutcome", "analyzeInventory"}
         /\ Finished(r)
         /\ req[r].cause # "store") =>
            /\ req[r].outcome = "ok"
            /\ Len(req[r].result) = 1

----------------------------------------------------------------------------
(* Properties of the orchestrator as a whole (Spec)                        *)

\* C19: a store query that fails inside trainModels, analyzeInventory,
\* predictItemOutcome or predictConsumptionByCategory, their lazy training
\* included, ends the request at once with an error and without a result;
\* the request issues no further query.
C19_StoreFailurePropagates ==
    \A r \in Requests :
        (/\ req[r].op \in Operations \ {"predictConsumptionTrend"}
         /\ req[r].cause = "store") =>
            /\ Finished(r)
            /\ req[r].outcome = "error"
            /\ req[r].result = <<>>

\* a trainModels call and the lazy training of an analyzeInventory call both
\* ended by a failed store query
C19_Witness ==
    /\ req["r1"].op = "analyzeInventory"
    /\ req["r1"].lazy
    /\ req["r1"].cause = "store"
    /\ req["r2"].op = "trainModels"
    /\ req["r2"].cause = "store"
    /\ trainRuns = 0

\* C20: no operation of the orchestrator writes to the store: every step of
\* trainModels, predictItemOutcome, predictConsumptionTrend,
\* predictConsumptionByCategory and analyzeInventory leaves the stored items,
\* item events and consumption patterns as they were; trainModels changes
\* in-memory state only.
C20_StoreIsReadOnly ==
    [][/\ dbItems' = dbItems
       /\ dbEvents' = dbEvents
       /\ dbPatterns' = dbPatterns]_vars

\* a completed training and a completed prediction over a store with rows
C20_Witness ==
    /\ TrainedOk("r1")
    /\ Finished("r2")
    /\ req["r2"].op = "analyzeInventory"
    /\ req["r2"].outcome = "ok"
    /\ req["r2"].sawRuns >= 1
    /\ dbPatterns # <<>>
    /\ dbEvents # <<>>
    /\ trainingData # <<>>

----------------------------------------------------------------------------
(* Properties of the consumption-pattern store (SpecPattern)               *)

RowKey(row) == PatternKey(row.user_id, row.item_name)

OneRowPerKey ==
    \A i, j \in 1..Len(dbPatterns) :
        RowKey(dbPatterns[i]) = RowKey(dbPatterns[j]) => i = j

CountIsProcessed ==
    /\ \A i \in 1..Len(dbPatterns) :
           dbPatterns[i].consumption_count = processedCount[RowKey(dbPatterns[i])]
    /\ \A key \in DOMAIN processedCount :
           processedCount[key] > 0 => \E i \in 1..Len(dbPatterns) : RowKey(dbPatterns[i]) = key

CountNeverDecreases ==
    \A i \in 1..Len(dbPatterns) :
        \E j \in 1..Len(dbPatterns') :
            /\ RowKey(dbPatterns'[j]) = RowKey(dbPatterns[i])
            /\ dbPatterns'[j].consumption_count >= dbPatterns[i].consumption_count

\* C21: however processConsumption requests interleave, consumption_patterns
\* holds at most one row per (user, item_name) key, the row's
\* consumption_count is the number of upserts executed for that key, and no
\* step lowers a row's count or removes a row.
C21_OneRowCountsProcessedEvents ==
    /\ [](OneRowPerKey /\ CountIsProcessed)
    /\ [][CountNeverDecreases]_vars

\* two cartons of one product consumed by u1 in overlapping requests, next to
\* a row of u2 and a request that failed after its event was recorded
C21_Witness ==
    /\ Len(dbPatterns) = 2
    /\ \E i \in 1..2 : /\ dbPatterns[i].user_id = "u1"
                       /\ dbPatterns[i].consumption_count = 2
                       /\ dbPatterns[i].average_consumption_days # None
    /\ req["r1"].op = "processConsumption" /\ req["r1"].itemId = "a"
    /\ req["r1"].outcome = "ok"
    /\ req["r2"].op = "processConsumption" /\ req["r2"].itemId = "b"
    /\ req["r2"].outcome = "ok"

----------------------------------------------------------------------------
(* Properties of cleanFeatureArray (SpecClean)                             *)

\* the defaults feature extraction documents, by index from 0
ExtractionDefaults == [i \in {0, 1, 2, 7, 8, 10} |->
                          CASE i = 0 -> 30 [] i = 1 -> 1 [] i = 2 -> 999
                            [] i = 7 -> 365 [] i = 8 -> 0 [] i = 10 -> 30]

\* C22: cleanFeatureArray replaces a null, NaN or infinite value at index i
\* with the default feature extraction documents for field i: 30 at index 0,
\* 1 at index 1, 999 at index 2, 365 at index 7, 0 at index 8, 30 at index 10.
C22_CleaningUsesExtractionDefaults ==
    (callArgs # <<>> /\ callArgs.fn = "cleanFeatureArray" /\ callResult # <<>>) =>
        \A i \in DOMAIN ExtractionDefaults :
            ~IsFiniteNumber(callArgs.features[i + 1]) =>
                callResult[i + 1] = Num(ExtractionDefaults[i])

----------------------------------------------------------------------------
(* Properties of prepareTrainingData (SpecPrepare)                         *)

Prepared == callArgs # <<>> /\ callArgs.fn = "prepareTrainingData" /\ callResult # <<>>

\* the noise a pattern consumed `count` times may carry
NoiseRange(count) == IF JsGreater(count, 5) THEN -1..1 ELSE -5..5

\* C23: every synthetic example of a pattern with average cycle a, in the
\* scenario with days_since_last d, has days_target =
\* clamp(max(1, a - d) + n, 1, 180) for a noise n within -1..1 when
\* consumption_count > 5 and within -5..5 otherwise, and has
\* classification_target 1 exactly when days_target <= 7.
C23_SyntheticTargets ==
    Prepared =>
        \A i \in 1..Len(callResult) :
            LET e == callResult[i]
                a == e.features[1].v
                d == e.features[3].v
            IN  /\ a = JsOr(callArgs.patterns[1].average_consumption_days, Num(30)).v
                /\ \E n \in NoiseRange(callArgs.patterns[1].consumption_count) :
                       e.days_target = Num(Max(1, Min(Max(1, a - d) + n, 180)))
                /\ e.classification_target = Num(IF e.days_target.v <= 7 THEN 1 ELSE 0)

\* a rarely consumed item with a very long cycle: the fresh scenario is
\* clamped to 180, the overdue one is due within the week
C23_Witness ==
    /\ Prepared
    /\ Len(callResult) = 16
    /\ callArgs.patterns[1].consumption_count = Num(3)
    /\ callArgs.r = 9
    /\ \E i, j \in 1..Len(callResult) :
           /\ callResult[i].days_target = Num(180)
           /\ callResult[i].classification_target = Num(0)
           /\ callResult[j].days_target = Num(5)
           /\ callResult[j].classification_target = Num(1)

\* C29: in every feature vector, synthetic or extracted, is_weekend is 1
\* exactly when day_of_week is 0 or 6.
C29_WeekendMatchesDayOfWeek ==
    Prepared =>
        \A i \in 1..Len(callResult) :
            LET f == callResult[i].features
            IN  f[7] = Num(1) <=> f[5] \in {Num(0), Num(6)}

----------------------------------------------------------------------------
(* Properties of validateTrainingData (SpecValidate)                       *)

Validated == callArgs # <<>> /\ callArgs.fn = "validateTrainingData" /\ callResult # <<>>

WithinWeek(days) == IF days <= 7 THEN 1 ELSE 0

\* C24 as claimed: whatever targets the input example carried, the output
\* has days_target in [1, 365] and classification_target equal to
\* (days_target <= 7 ? 1 : 0) computed from the cleaned days_target.
C24_ClassificationRederived ==
    Validated =>
        \A i \in 1..Len(callResult.data) :
            LET e == callResult.data[i]
            IN  /\ e.days_target \in 1..365
                /\ e.classification_target \in {0, 1}
                /\ e.classification_target = WithinWeek(e.days_target)

\* C24 amended: the output has days_target in [1, 365] and a
\* classification_target that is 0 or 1; an input classification that is
\* already 0 or 1 is kept as it is, any other is replaced by
\* (days_target <= 7 ? 1 : 0) of the cleaned days_target; so the two agree
\* whenever the input's classification agreed with its own finite days_target.
C24_ClassificationCoerced ==
    Validated =>
        /\ Len(callResult.data) = Len(callArgs.data)
        /\ \A i \in 1..Len(callResult.data) :
               LET e == callResult.data[i]
                   in == callArgs.data[i]
               IN  /\ e.days_target \in 1..365
                   /\ e.classification_target \in {0, 1}
                   /\ IF in.classification_target \in {Num(0), Num(1)}
                      THEN e.classification_target = in.classification_target.v
                      ELSE e.classification_target = WithinWeek(e.days_target)
                   /\ (/\ in.days_target.t = "num"
                       /\ in.classification_target = Num(WithinWeek(in.days_target.v)))
                      => e.classification_target = WithinWeek(e.days_target)

\* an example that claims consumption within the week for a 100-day target
C24_Witness ==
    /\ Validated
    /\ callArgs.data[1].days_target = Num(100)
    /\ callArgs.data[1].classification_target = Num(1)
    /\ callResult.data[1].days_target = 100
    /\ callResult.data[1].classification_target = 1

----------------------------------------------------------------------------
(* Properties of preprocessConsumptionData (SpecLifecycle)                 *)

Preprocessed ==
    callArgs # <<>> /\ callArgs.fn = "preprocessConsumptionData" /\ callResult # <<>>

\* the events of an item id in the argument, as a set of positions
EventIdx(itemId, types) ==
    {i \in 1..Len(callArgs.itemEvents) :
        /\ callArgs.itemEvents[i].item_id = itemId
        /\ callArgs.itemEvents[i].event_type \in types}

DateAt(i) == callArgs.itemEvents[i].event_date

\* the terminal events of an item dated strictly after its earliest add event
LaterTerminals(itemId) ==
    {t \in EventIdx(itemId, {"consume", "expire", "discard"}) :
        /\ EventIdx(itemId, {"add"}) # {}
        /\ \A a \in EventIdx(itemId, {"add"}) :
               (\A b \in EventIdx(itemId, {"add"}) : DateAt(a) <= DateAt(b))
                   => DateAt(t) > DateAt(a)}

\* C25: preprocessConsumptionData yields at most one example per item id, and
\* one only for an id with an add event and a consume, expire or discard event
\* dated strictly after the earliest add event; its outcome is the type of the
\* earliest such terminal event and its actual_lifespan_days is the whole
\* number of days from the earliest add to that event, never negative.
C25_OneExamplePerCompleteLifecycle ==
    Preprocessed =>
        /\ \A i, j \in 1..Len(callResult.data) :
               callResult.data[i].item_id = callResult.data[j].item_id => i = j
        /\ \A i \in 1..Len(callResult.data) :
               LET e == callResult.data[i]
                   later == LaterTerminals(e.item_id)
               IN  /\ later # {}
                   /\ \E a \in EventIdx(e.item_id, {"add"}), t \in later :
                          /\ \A b \in EventIdx(e.item_id, {"add"}) : DateAt(a) <= DateAt(b)
                          /\ \A u \in later : DateAt(t) <= DateAt(u)
                          /\ e.outcome = callArgs.itemEvents[t].event_type
                          /\ 2 * e.actual_lifespan_days <= DateAt(t) - DateAt(a)
                          /\ 2 * e.actual_lifespan_days + 2 > DateAt(t) - DateAt(a)
                          /\ e.actual_lifespan_days >= 0
        /\ \A id \in {"a", "b"} :
               LaterTerminals(id) # {} =>
                   \E i \in 1..Len(callResult.data) : callResult.data[i].item_id = id

\* item a was consumed before it was added and expired the day after
C25_Witness ==
    /\ Preprocessed
    /\ callArgs.itemEvents = <<Event("u1", "a", "expire", 13, "", ""),
                               Event("u1", "a", "add", 11, "", ""),
                               Event("u1", "a", "consume", 10, "", "")>>
    /\ Len(callResult.data) = 1
    /\ callResult.data[1].outcome = "expire"
    /\ callResult.data[1].actual_lifespan_days = 1

----------------------------------------------------------------------------
(* Properties of the category encoder (SpecEncoder)                        *)

\* the integer the encoder holds for a category it knows
CodeOf(enc, category) == (CHOOSE i \in 1..Len(enc) : enc[i] = category) - 1

EncoderInjective ==
    \A i, j \in 1..Len(categoryEncoder) :
        categoryEncoder[i] = categoryEncoder[j] => i = j

\* every call returned the integer the encoder holds for its category
EncoderAnswers ==
    callArgs # <<>> =>
        \A i \in 1..Len(callArgs.categories) :
            /\ EncoderHas(categoryEncoder, callArgs.categories[i])
            /\ callResult[i] = Num(CodeOf(categoryEncoder, callArgs.categories[i]))

EncoderKeepsCodes ==
    \A c \in EncoderCategories :
        EncoderHas(categoryEncoder, c) =>
            /\ EncoderHas(categoryEncoder', c)
            /\ CodeOf(categoryEncoder', c) = CodeOf(categoryEncoder, c)

\* C26: after any sequence of training-data generation and prediction calls
\* the category encoder maps distinct category strings to distinct integers,
\* and the integer a category got on first sight never changes.
C26_EncoderInjectiveAndStable ==
    /\ [](EncoderInjective /\ EncoderAnswers)
    /\ [][EncoderKeepsCodes]_vars

\* three categories are known; the last call saw an old one again
C26_Witness ==
    /\ Len(categoryEncoder) = 3
    /\ callArgs.fn = "extractFeatures"
    /\ callArgs.categories = <<"Dairy">>
    /\ callResult = <<Num(2)>>
    /\ categoryEncoder[2] = "dairy"

----------------------------------------------------------------------------
(* Properties of the is-trained flag (Spec)                                *)

\* request r is inside trainModels in this state and has left it by a throw
\* in the next
TrainingFails(r) ==
    /\ req[r].pc \in {"train_patterns", "train_events"}
    /\ req'[r].pc = "done"
    /\ req'[r].cause = "store"

\* request r is inside trainModels in this state and the run completes
TrainingCompletes(r) ==
    /\ req[r].pc = "train_events"
    /\ req'[r].cause = ""
    /\ req'[r].pc \in {"fetch", "done"}

\* request r is called in this step
Called(r) == req[r].pc = "idle" /\ req'[r].pc # "idle"

FlagStep ==
    /\ isModelsTrained' # isModelsTrained =>
           /\ ~isModelsTrained
           /\ isModelsTrained'
           /\ \E r \in Requests : TrainingCompletes(r)
    /\ \A r \in Requests :
           /\ TrainingFails(r) => isModelsTrained' = isModelsTrained
           /\ (Called(r) /\ req'[r].op \in PredictionOps) =>
                  IF isModelsTrained
                  THEN ~req'[r].lazy /\ req'[r].pc = "fetch"
                  ELSE req'[r].lazy /\ req'[r].pc = "train_patterns"

\* C27: the is-trained flag changes only from false to true and only in the
\* step that completes a trainModels run; lastTrainingTime is set exactly
\* when the flag is; a run that throws leaves the flag as it was; a prediction
\* request called with the flag set goes straight to its own queries, one
\* called with the flag clear runs trainModels first.
C27_FlagOnlyRises ==
    /\ [](isModelsTrained <=> lastTrainingTime # None)
    /\ [][FlagStep]_vars

\* a prediction request whose training failed, then a second one, called
\* afterwards, that trained and answered
C27_Witness ==
    /\ req["r1"].op \in PredictionOps
    /\ req["r1"].lazy
    /\ req["r1"].pc = "done"
    /\ req["r1"].cause = "store"
    /\ req["r1"].left = Awaits(req["r1"].op)
    /\ req["r2"].op \in PredictionOps
    /\ req["r2"].lazy
    /\ ~req["r2"].startBusy
    /\ req["r2"].outcome = "ok"
    /\ isModelsTrained
    /\ lastTrainingTime # None
    /\ trainRuns = 1

----------------------------------------------------------------------------
(* Properties of the risk score (SpecRisk)                                 *)

Scored == callArgs # <<>> /\ callArgs.fn = "riskScore" /\ callResult # <<>>

\* C28: for every confidence and category waste risk in [0, 1], an item whose
\* predicted outcome is not 'expire' has a risk_score within [-0.1, 0.3] and
\* the risk_level 'low'; only an item predicted 'expire' is 'medium' or
\* 'high'; every risk_score lies within [-0.1, 1].
C28_RiskScoreRanges ==
    Scored =>
        /\ callArgs.prediction.prediction # "expire" =>
               /\ RatLeq(<<-1, 10>>, callResult.risk_score)
               /\ RatLeq(callResult.risk_score, <<3, 10>>)
               /\ callResult.risk_level = "low"
        /\ callResult.risk_level \in {"medium", "high"} =>
               callArgs.prediction.prediction = "expire"
        /\ RatLeq(<<-1, 10>>, callResult.risk_score)
        /\ RatLeq(callResult.risk_score, <<1, 1>>)

\* a sure 'consume' prediction in a category that never wasted anything, at
\* the lower end of the range
C28_Witness ==
    /\ Scored
    /\ callArgs.prediction.prediction = "consume"
    /\ callArgs.prediction.confidence = <<1, 1>>
    /\ callArgs.categoryRisk = <<0, 1>>
    /\ RatEq(callResult.risk_score, <<-1, 10>>)
    /\ callResult.risk_level = "low"

----------------------------------------------------------------------------
(* Properties of compareMLModels (SpecCompare)                             *)

Compared == callArgs # <<>> /\ callArgs.fn = "compareMLModels" /\ callResult # <<>>

\* C30: in the report of compareMLModels an item is flagged
\* both_have_predictions only if the ensemble gave it a days estimate and the
\* KNN inventory analysis contains it, agreements are counted only among such
\* items, and model_agreement_rate lies within [0, 1].
C30_AgreementAmongCommonItems ==
    Compared =>
        /\ \A i \in 1..Len(callResult.comparisons) :
               callResult.comparisons[i].both_have_predictions =>
                   /\ callArgs.rfPredictions[i].days_until_consumption # None
                   /\ \E j \in 1..Len(callArgs.items) :
                          callArgs.items[j].id = callArgs.rfPredictions[i].item_id
        /\ callResult.items_with_both_predictions > 0 =>
               callResult.model_agreement_rate[1] =
                   Cardinality({i \in 1..Len(callResult.comparisons) :
                                   /\ callResult.comparisons[i].both_have_predictions
                                   /\ callResult.comparisons[i].models_agree})
        /\ RatLeq(<<0, 1>>, callResult.model_agreement_rate)
        /\ RatLeq(callResult.model_agreement_rate, <<1, 1>>)

====
